---- MODULE Spec2Model ----
(***************************************************************************)
(* Task store (TaskManager over Redis hashes) and the Celery worker        *)
(* optimize_dataset_async of the data-analyzer-service.                    *)
(*                                                                         *)
(* Every Redis command (hset, hgetall, delete, zadd, zrem) is atomic; a    *)
(* Python method that issues several commands can be interleaved with      *)
(* other clients between two commands.  update_batch_progress is therefore *)
(* modelled as three steps (read, store batch, store status); the worker   *)
(* as one step per store write.                                            *)
(*                                                                         *)
(* The content of a run (records, diagnosis, optimization, verification,   *)
(* cleaning) is modelled by a second specification, PipelineSpec, for the  *)
(* synchronous DataOptimizationWorkflow.run and for the batched worker     *)
(* path; the decision of VerificationAgent._verify_single on one verifier  *)
(* response by a third, VerifySpec.                                        *)
(*                                                                         *)
(* Further specifications: RepeatSpec runs one input twice on one worker   *)
(* process (the knowledge base belongs to the process); ApiSpec is the     *)
(* in-memory task table of app.py with its background runs and the result  *)
(* endpoint, SyncApiSpec the synchronous endpoint; ThinkSpec applies       *)
(* _check_has_think_field of both agents to one dataset, CleanSpec         *)
(* CleaningAgent.clean_dataset to one list of verified records.            *)
(*                                                                         *)
(* IndexSpec runs the TaskManager calls over two task ids with the index   *)
(* tasks:all as a sequence by score; SoloSpec is Spec with one worker and  *)
(* no other writer.  BatchSpec cuts one list into the batches of a worker  *)
(* stage, GenSpec runs generate_samples and the generation stage over      *)
(* sparse clusters, QualitySpec diagnose_full over one dataset,            *)
(* VerifyBatchSpec verify_batch over one batch with verifier exceptions,   *)
(* and WorkerProcessSpec init_worker over the tasks of one worker process. *)
(***************************************************************************)
EXTENDS Integers, Sequences, FiniteSets, TLC

\* ---------------------------------------------------------------- bounds
MaxDataset == 3
MaxBatchIndex == 1
MaxCompleted == 2
\* records of a dataset given to the pipeline
MaxRecords == 2
\* run_optimization calls waiting in the API process
MaxBackground == 2
\* documents one process's knowledge base grows to
MaxDocuments == 2
\* jobs one worker process runs one after the other
MaxJobs == 2
\* records of a dataset whose keys are looked at, and how many of them
\* carry a key besides question and answer
MaxThinkLen == 11
MaxKeyed == 1
\* records given to one clean_dataset call
MaxCleanLen == 2
\* limit argument of list_tasks
MaxLimit == 2
\* items of a list cut into batches, and the batch sizes tried
MaxList == 6
MaxBatchSize == 3
\* sparse clusters of one diagnosis
MaxClusters == 2
\* records of a dataset given to diagnose_full alone
MaxQuality == 2
\* samples of one verify_batch call
MaxVerify == 3
\* tasks one worker process runs
MaxTasks == 3

\* config.BATCH_SIZE, scaled down (environment default 50)
BATCH_SIZE == 2

TaskIds == {"t1"}
Workers == {"w1"}
Callers == {"c1", "c2"}

\* A hash field that was never written.
Absent == -1
NA == "NA"

\* ------------------------------------------------------------ arithmetic
RECURSIVE GCD(_, _)
GCD(a, b) == IF b = 0 THEN a ELSE GCD(b, a % b)

\* Python float progress values, kept exact as a fraction in lowest terms.
Rat(num, den) ==
    LET g == GCD(num, den)
    IN  IF g = 0 THEN [n |-> 0, d |-> 1] ELSE [n |-> num \div g, d |-> den \div g]

NoProgress == [n |-> Absent, d |-> 1]

CeilDivFloor(a, b) == a \div b

\* total_batches = (dataset_size + batch_size - 1) // batch_size
CeilDiv(a, b) == (a + b - 1) \div b

\* ------------------------------------------------------------- the store
VARIABLES
    task,       \* task:{id}          hash, one record of fields per task id
    batch,      \* task:{id}:batch:i  the batch indices that hold a result hash
    tasksAll,   \* tasks:all          the sorted set, by ascending score
    caller,     \* clients inside TaskManager.update_batch_progress
    worker      \* worker processes inside a Celery task of tasks.py

vars == <<task, batch, tasksAll, caller, worker>>

\* ----------------------------------------------------------- the pipeline
VARIABLES
    request,    \* dataset, knowledge_base, optimization_guidance of a request
    llm,        \* the external model behind llm_client.chat (deterministic)
    run,        \* WorkflowState / the locals of the job that is running
    result,     \* what each path returned for the request
    vcase,      \* one call of VerificationAgent._verify_single
    documents,  \* KnowledgeBaseManager.documents of the process of a path
    history     \* sizes of the final datasets of the worker's earlier jobs

pvars == <<request, llm, run, result, vcase, documents, history>>

\* ------------------------------------------------------ the API process
VARIABLES
    optimization_tasks, \* app.py: the dict of task records, by task id
    background,         \* BackgroundTasks: run_optimization calls not yet run
    submitted,          \* the task ids POST /optimize has accepted so far
    reply               \* the response of the last request served

avars == <<optimization_tasks, background, submitted, reply>>

\* ------------------------------------------------- single function calls
VARIABLES
    tcase,      \* one dataset given to both _check_has_think_field methods
    ccase       \* one call of CleaningAgent.clean_dataset

\* ------------------------------------------- single TaskManager calls
VARIABLES
    ret         \* the last TaskManager call served and what it returned

\* -------------------------------------------------- single loops and calls
VARIABLES
    bcase,      \* one batched loop of optimize_dataset_async over a list
    gcase,      \* the generation stage over one list of sparse clusters
    qcase,      \* one call of DiagnosticAgent.diagnose_full
    vbcase,     \* one call of VerificationAgent.verify_batch
    process     \* the module globals of tasks.py in one worker process

yvars == <<bcase, gcase, qcase, vbcase, process>>

xvars == <<ret, yvars>>

cvars == <<tcase, ccase, xvars>>

\* A record of a dataset.  A key the record does not have is NA; the
\* markers _optimized, _corrected, _generated and _pii_cleaned are absent
\* (FALSE) or True.
Sample(question, think, reasoning, answer) ==
    [question |-> question, think |-> think, reasoning |-> reasoning,
     answer |-> answer, optimized |-> FALSE, corrected |-> FALSE,
     generated |-> FALSE, pii_cleaned |-> FALSE]

\* optimization_guidance: None, or a dict with focus_areas and, possibly,
\* problem_indices (0-based, as in the source).
NoGuidance ==
    [given |-> FALSE, focus_areas |-> {}, problem_indices |-> <<>>]

\* The empty mapping {} given as optimization_guidance: not None, and
\* without a key.
EmptyGuidance ==
    [given |-> TRUE, focus_areas |-> {}, problem_indices |-> <<>>]

\* Python truth value of an optimization_guidance: None and {} are false
Truthy(guidance) == guidance.given /\ guidance # EmptyGuidance

NoRequest ==
    [dataset |-> <<>>, knowledge_base |-> <<>>,
     optimization_guidance |-> NoGuidance]

\* The two ways a request is served: DataOptimizationWorkflow.run and
\* the worker job optimize_dataset_async.
Paths == {"sync", "async"}

\* initial_state of DataOptimizationWorkflow.run, and the locals of the
\* worker job before its first statement.  calls counts the chat calls
\* made to the external model; rejected collects the "rejected" lists that
\* verify_batch returned; trail lists the stages entered, phase_log the
\* current_phase values written to the store, opt and ver the batches
\* <<done, total>> of the two batched loops.
IdleRun ==
    [path |-> NA, pc |-> "idle", mode |-> NA, status |-> NA,
     sparse_clusters |-> <<>>,
     low_quality_samples |-> <<>>, optimized_samples |-> <<>>,
     generated_samples |-> <<>>,
     optimized_count |-> 0, generated_count |-> 0, calls |-> 0,
     verified_samples |-> <<>>, rejected |-> <<>>, final_dataset |-> <<>>,
     trail |-> <<>>, phase_log |-> <<>>,
     opt |-> <<0, 0>>, ver |-> <<0, 0>>]

\* What a path returned: the final dataset and the statistics (calls is
\* the number of chat calls the external model received meanwhile).
NoResult ==
    [done |-> FALSE, status |-> NA, final_dataset |-> <<>>,
     input_size |-> Absent, output_size |-> Absent,
     optimized_count |-> 0, generated_count |-> 0, calls |-> 0]

\* A response of llm_client.chat to a verification prompt: text that
\* json.loads rejects, or a JSON object whose keys may be missing (NA).
Unparseable ==
    [parseable |-> FALSE, is_correct |-> FALSE, confidence |-> 0,
     corrected_answer |-> NA, corrected_reasoning |-> NA]

Judgement(is_correct, confidence, corrected_answer, corrected_reasoning) ==
    [parseable |-> TRUE, is_correct |-> is_correct,
     confidence |-> confidence, corrected_answer |-> corrected_answer,
     corrected_reasoning |-> corrected_reasoning]

NoLlm == [optimize |-> NA, verify |-> <<>>, clusters |-> <<>>]

NoCase ==
    [sample |-> Sample("q1", NA, NA, "short"), docs |-> <<>>,
     response |-> Unparseable, self_correction |-> TRUE,
     status |-> NA, corrected_sample |-> Sample("q1", NA, NA, "short")]

EmptyHash ==
    [status |-> NA, total_batches |-> Absent,
     completed_batches |-> Absent, progress |-> NoProgress]

\* redis hset(key, mapping): merge the written fields over the stored hash
HSet(h, mapping) ==
    LET
        Fields == DOMAIN EmptyHash
    IN
    [f \in Fields |-> IF f \in DOMAIN mapping THEN mapping[f] ELSE h[f]]

\* The model keeps the fields of the task hash that the checked properties
\* read; mode, sizes, times, error, statistics, current_batch and
\* current_phase are written along with them and never read back by the code
\* modelled here.  hgetall returns {} for a missing key.
Exists(t) == task[t] # EmptyHash

\* TaskManager.get_task: None (EmptyHash here) or the decoded hash
get_task(t) == task[t]

\* TaskManager.update_task_status: updates = {"status": status, **kwargs}
update_task_status(t, status, kwargs) ==
    task' = [task EXCEPT ![t] = HSet(@, [status |-> status] @@ kwargs)]

\* TaskManager.get_batch_results: the stored batches among range(total_batches)
get_batch_results(t) ==
    IF ~Exists(t) THEN {}
    ELSE {i \in batch[t] : i < get_task(t).total_batches}

\* The locals of a call: completed_batches and progress of lines 127-129.
\* batch_index is only used by the hset of line 132 and is drawn there.
IdleCaller == [pc |-> "idle", task_id |-> NA,
               completed_batches |-> Absent, progress |-> NoProgress]

IdleWorker == [pc |-> "idle", task_id |-> NA, n |-> 0, k |-> 0, K |-> 0,
               optimized |-> 0, progress |-> NoProgress]

\* An empty store, no call and no job running.
StoreInit ==
    /\ task = [t \in TaskIds |-> EmptyHash]
    /\ batch = [t \in TaskIds |-> {}]
    /\ tasksAll = <<>>
    /\ caller = [c \in Callers |-> IdleCaller]
    /\ worker = [w \in Workers |-> IdleWorker]

\* Task ids of the API process (request.task_id)
ApiTaskIds == {"t1", "t2"}

\* A task id that is not a key of optimization_tasks.  Of a record,
\* optimized_dataset and error are Absent until the key is written; a
\* dataset is kept by its size.
NoTask ==
    [status |-> NA, mode |-> NA, dataset_size |-> Absent,
     optimized_dataset |-> Absent, error |-> Absent]

\* No request served yet.  code is the HTTP status; optimized_dataset and
\* error are Absent when the response carries None for them; statistics_mode
\* is statistics["mode"] of a synchronous response; ran tells whether
\* workflow.run was called to serve the request; request_size and
\* request_guidance repeat what the request carried.
NoReply ==
    [code |-> 0, endpoint |-> NA, task_id |-> NA, status |-> NA,
     mode |-> NA, statistics_mode |-> NA, optimized_dataset |-> Absent,
     error |-> Absent, ran |-> FALSE,
     request_size |-> Absent, request_guidance |-> NoGuidance]

\* The API process after startup_event
ApiIdle ==
    /\ optimization_tasks = [t \in ApiTaskIds |-> NoTask]
    /\ background = <<>>
    /\ submitted = {}
    /\ reply = NoReply

\* A fresh knowledge base in each process (KnowledgeBaseManager.__init__),
\* no job done
KbIdle ==
    /\ documents = [p \in Paths |-> <<>>]
    /\ history = <<>>

\* No agent has looked at the dataset yet.  called holds the agents whose
\* _check_has_think_field has returned, diagnostic and optimization what
\* they returned.
NoThinkCase ==
    [dataset |-> <<>>, called |-> {}, diagnostic |-> FALSE,
     optimization |-> FALSE]

\* clean_dataset not called yet; engine tells whether the analyzer and
\* the anonymizer were built (CleaningAgent.__init__).
NoCleanCase ==
    [dataset |-> <<>>, engine |-> TRUE, done |-> FALSE,
     cleaned_dataset |-> <<>>, cleaned_count |-> 0]

\* No TaskManager call served yet.  Of a call, fresh tells whether the id
\* was absent when create_task was called, tasks is the list of ids of the
\* records list_tasks returned, next_batch the integer resume_task returned
\* (Absent for None) and raised the exception that ended the call.
NoCall ==
    [op |-> NA, task_id |-> NA, fresh |-> FALSE,
     dataset_size |-> Absent, batch_size |-> Absent,
     status |-> NA, limit |-> Absent,
     tasks |-> <<>>, next_batch |-> Absent, raised |-> NA]

\* No loop entered: the list (its items are named by their positions), the
\* stage whose loop it is, config.BATCH_SIZE, the loop's total_batches and
\* batch_idx, and the batch_samples of the batches run so far.
NoBatchCase ==
    [list |-> <<>>, stage |-> NA, batch_size |-> 1, entered |-> FALSE,
     total_batches |-> 0, batch_idx |-> 0, batches |-> <<>>]

\* No generation yet.  clusters are the sparse clusters of the diagnosis,
\* each with the response the external model gives to its prompt; asked and
\* contributed are target_count and the marked new_samples of the clusters
\* generate_samples has gone through; job holds the locals of the worker's
\* generation stage (batches counts the generation batches it has run).
NoGenCase ==
    [clusters |-> <<>>, asked |-> <<>>, contributed |-> <<>>,
     job |-> [done |-> FALSE, total_to_generate |-> 0, total_batches |-> 0,
              batches |-> 0, raised |-> FALSE]]

\* diagnose_full not called yet; afterwards has_think_field of its report
\* and the 0-based indices of its low_quality_samples, in list order
NoQualityCase ==
    [dataset |-> <<>>, done |-> FALSE, has_think_field |-> FALSE,
     low_quality |-> <<>>]

\* verify_batch not called yet.  responses[i] is the verifier's answer to
\* the prompt of samples[i] and raises holds the positions whose
\* _verify_single raises; afterwards the lists and stats it returned.
NoVerifyBatchCase ==
    [samples |-> <<>>, docs |-> <<>>, responses |-> <<>>, raises |-> {},
     done |-> FALSE,
     passed |-> <<>>, corrected |-> <<>>, rejected |-> <<>>,
     verified_samples |-> <<>>,
     stats |-> [total |-> 0, passed |-> 0, corrected |-> 0, rejected |-> 0]]

\* tasks.py lines 19-21 at import: the three globals are None.  save is
\* config.SAVE_DATASETS or config.SAVE_REPORTS, built counts the
\* assignments of workflow, log holds the tasks the process has run.
FreshProcess ==
    [workflow |-> FALSE, storage_manager |-> FALSE, task_manager |-> FALSE,
     save |-> FALSE, built |-> 0, log |-> <<>>]

CallsIdle ==
    /\ ret = NoCall
    /\ bcase = NoBatchCase
    /\ gcase = NoGenCase
    /\ qcase = NoQualityCase
    /\ vbcase = NoVerifyBatchCase
    /\ process = FreshProcess

CasesIdle ==
    /\ tcase = NoThinkCase
    /\ ccase = NoCleanCase
    /\ CallsIdle

\* The store specification carries no request.
Init ==
    /\ StoreInit
    /\ request = NoRequest
    /\ llm = NoLlm
    /\ run = IdleRun
    /\ result = [p \in Paths |-> NoResult]
    /\ vcase = NoCase
    /\ KbIdle
    /\ ApiIdle
    /\ CasesIdle

\* ------------------------------------------------------ TaskManager calls
\* create_task: hset of a full record, then zadd into tasks:all
create_task(t, dataset_size, batch_size) ==
    LET
        \* redis zadd(tasks:all, {t: datetime.now().timestamp()}): t gets the
        \* highest score so far, a member is re-scored.  The sorted set is kept as
        \* the sequence of its members by ascending score; the clock read by
        \* datetime.now() is taken to advance between two calls.
        zadd(zset, member) ==
            Append(SelectSeq(zset, LAMBDA m : m # member), member)
    IN
    /\ task' = [task EXCEPT ![t] =
          HSet(@, [status |-> "pending",
                   total_batches |-> CeilDiv(dataset_size, batch_size),
                   completed_batches |-> 0, progress |-> Rat(0, 1)])]
    /\ tasksAll' = zadd(tasksAll, t)

CreateTask ==
    \E t \in TaskIds, n \in 0..MaxDataset :
        /\ create_task(t, n, BATCH_SIZE)
        /\ UNCHANGED <<batch, caller, worker, pvars, avars, cvars>>

\* update_batch_progress, lines 122-129: read the task and compute.
\* A missing task returns; a record without completed_batches/total_batches
\* raises KeyError and total_batches = 0 raises ZeroDivisionError, all
\* before any write, so the call has no effect in those cases.
UbpRead(c) ==
    LET
        \* round((completed / total) * 100, 2): nearest hundredth, ties to even
        RoundProgress(completed, total) ==
            LET q == (completed * 10000) \div total
                r == (completed * 10000) % total
                up == \/ 2 * r > total
                      \/ (2 * r = total /\ q % 2 = 1)
            IN  Rat(IF up THEN q + 1 ELSE q, 100)
    IN
    \E t \in TaskIds :
        LET tk == get_task(t) IN
        /\ caller[c].pc = "idle"
        /\ Exists(t)
        /\ tk.completed_batches # Absent
        /\ tk.total_batches # Absent
        /\ tk.total_batches # 0
        /\ tk.completed_batches < MaxCompleted
        /\ caller' = [caller EXCEPT ![c] =
              [pc |-> "hset_batch", task_id |-> t,
               completed_batches |-> tk.completed_batches + 1,
               progress |-> RoundProgress(tk.completed_batches + 1,
                                          tk.total_batches)]]
        /\ UNCHANGED <<task, batch, tasksAll, worker, pvars, avars, cvars>>

\* update_batch_progress, lines 132-135: hset task:{id}:batch:{batch_index}
UbpStoreBatch(c) ==
    \E batch_index \in 0..MaxBatchIndex :
        /\ caller[c].pc = "hset_batch"
        /\ batch' = [batch EXCEPT ![caller[c].task_id] = @ \cup {batch_index}]
        /\ caller' = [caller EXCEPT ![c].pc = "hset_task"]
        /\ UNCHANGED <<task, tasksAll, worker, pvars, avars, cvars>>

\* update_batch_progress, lines 138-144: update_task_status(processing, ...)
UbpStoreStatus(c) ==
    /\ caller[c].pc = "hset_task"
    /\ update_task_status(caller[c].task_id, "processing",
          [completed_batches |-> caller[c].completed_batches,
           progress |-> caller[c].progress])
    /\ caller' = [caller EXCEPT ![c] = IdleCaller]
    /\ UNCHANGED <<batch, tasksAll, worker, pvars, avars, cvars>>

\* delete_task: returns on a missing task; a record without total_batches
\* raises KeyError before any delete.  Otherwise deletes the batch keys
\* 0..total_batches-1, the task hash and the index entry (taken as one
\* step: the deletes follow the read without any computation in between).
delete_task(t) ==
    LET
        \* redis zrem(tasks:all, t)
        zrem(zset, member) == SelectSeq(zset, LAMBDA m : m # member)
    IN
    LET tk == get_task(t) IN
    /\ Exists(t)
    /\ tk.total_batches # Absent
    /\ batch' = [batch EXCEPT ![t] = {i \in @ : ~(i < tk.total_batches)}]
    /\ task' = [task EXCEPT ![t] = EmptyHash]
    /\ tasksAll' = zrem(tasksAll, t)

DeleteTask ==
    \E t \in TaskIds :
        /\ delete_task(t)
        /\ UNCHANGED <<caller, worker, pvars, avars, cvars>>

\* TaskManager.resume_task: completed_batches of a non-terminal task
next_batch_to_process(t) ==
    IF ~Exists(t) \/ get_task(t).status \in {"completed", "failed"}
    THEN Absent
    ELSE get_task(t).completed_batches

\* --------------------------------------------- worker: optimize_dataset_async
\* One store write of the running job, leaving every other variable alone.
WorkerWrite(w, kwargs, next) ==
    /\ update_task_status(worker[w].task_id, "processing", kwargs)
    /\ worker' = [worker EXCEPT ![w] = next]
    /\ UNCHANGED <<batch, tasksAll, caller, pvars, avars, cvars>>

\* The broker delivers a tasks.optimize_dataset_async message for some
\* task id to an idle worker; line 92 writes status = processing.
WorkerStart(w) ==
    \E t \in TaskIds :
        /\ worker[w].pc = "idle"
        /\ update_task_status(t, "processing", <<>>)
        /\ worker' = [worker EXCEPT ![w] =
              [IdleWorker EXCEPT !.pc = "l104", !.task_id = t]]
        /\ UNCHANGED <<batch, tasksAll, caller, pvars, avars, cvars>>

\* line 104: the same write again, before the diagnosis
WorkerDiagnostic(w) ==
    /\ worker[w].pc = "l104"
    /\ WorkerWrite(w, <<>>,
                   [worker[w] EXCEPT !.pc = "l123"])

\* lines 107-129: the diagnosis of the message's dataset (n records, first
\* read here) reports low of them as low-quality; line 123 writes the
\* phase; the optimization loop is set up.
WorkerOptimization(w) ==
    \E n \in 0..MaxDataset, low \in 0..MaxDataset :
        /\ worker[w].pc = "l123"
        /\ low <= n
        /\ WorkerWrite(w, <<>>,
              [worker[w] EXCEPT !.pc = IF low > 0 THEN "opt" ELSE "l207",
                                !.n = n,
                                !.k = 0,
                                !.K = CeilDiv(low, BATCH_SIZE)])

\* progress of line 151
OptProgress(batch_idx, total_batches) ==
    Rat((batch_idx + 1) * 50, total_batches + 1)

\* lines 133-159: one optimization batch.  optimize_samples returns the
\* whole dataset each time (the untouched records plus the batch), and the
\* write of line 152 also sets completed_batches and total_batches.
\* Generation (lines 161-196) never runs a batch: the diagnosed clusters
\* carry no samples_to_generate, so total_to_generate = 0.
WorkerOptBatch(w) ==
    LET me == worker[w]
        progress == OptProgress(me.k, me.K)
    IN  /\ me.pc = "opt"
        /\ me.k < me.K
        /\ WorkerWrite(w,
              [progress |-> progress,
               completed_batches |-> me.k + 1,
               total_batches |-> me.K + 1],
              [me EXCEPT !.k = @ + 1,
                         !.optimized = @ + me.n,
                         !.progress = progress,
                         !.pc = IF me.k + 1 = me.K THEN "l207" ELSE "opt"])

\* line 207 and lines 209-216: the verification loop is set up
WorkerVerification(w) ==
    LET me == worker[w] IN
    /\ me.pc = "l207"
    /\ WorkerWrite(w, <<>>,
          [me EXCEPT !.pc = IF me.optimized > 0 THEN "verify" ELSE "l245",
                     !.k = 0,
                     !.K = CeilDiv(me.optimized, BATCH_SIZE)])

VerifyProgressFromZero(batch_idx, total_batches) ==
    Rat((batch_idx + 1) * 20, total_batches)

\* progress of line 230
VerifyProgress(batch_idx, total_batches) ==
    Rat(75 * total_batches + (batch_idx + 1) * 20, total_batches)

\* lines 218-236: one verification batch
WorkerVerifyBatch(w) ==
    LET me == worker[w]
        progress == VerifyProgress(me.k, me.K)
    IN  /\ me.pc = "verify"
        /\ me.k < me.K
        /\ WorkerWrite(w,
              [progress |-> progress],
              [me EXCEPT !.k = @ + 1,
                         !.progress = progress,
                         !.pc = IF me.k + 1 = me.K THEN "l245" ELSE "verify"])

\* line 245: entering the cleaning stage writes progress = 95
WorkerCleaning(w) ==
    /\ worker[w].pc = "l245"
    /\ WorkerWrite(w, [progress |-> Rat(95, 1)],
          [worker[w] EXCEPT !.pc = "l290", !.progress = Rat(95, 1)])

\* TaskManager.complete_task
complete_task(t) ==
    update_task_status(t, "completed",
        [progress |-> Rat(100, 1)])

\* TaskManager.fail_task
fail_task(t) ==
    update_task_status(t, "failed", <<>>)

\* lines 247-303: cleaning, statistics, complete_task, return
WorkerComplete(w) ==
    /\ worker[w].pc = "l290"
    /\ complete_task(worker[w].task_id)
    /\ worker' = [worker EXCEPT ![w] = IdleWorker]
    /\ UNCHANGED <<batch, tasksAll, caller, pvars, avars, cvars>>

\* lines 305-307: any step of the run raises; the except clause calls
\* fail_task and stands before the raise of line 308
WorkerFail(w) ==
    /\ worker[w].pc \notin {"idle", "resume", "raised"}
    /\ fail_task(worker[w].task_id)
    /\ worker' = [worker EXCEPT ![w] =
          [IdleWorker EXCEPT !.pc = "raised", !.task_id = worker[w].task_id]]
    /\ UNCHANGED <<batch, tasksAll, caller, pvars, avars, cvars>>

\* line 82: init_worker() stands before the try; when it raises (the
\* embedding model does not load, Redis is not reachable) the exception
\* leaves the job and no store write has been made
WorkerInitFail(w) ==
    \E t \in TaskIds :
        /\ worker[w].pc = "idle"
        /\ worker' = [worker EXCEPT ![w] =
              [IdleWorker EXCEPT !.pc = "raised", !.task_id = t]]
        /\ UNCHANGED <<task, batch, tasksAll, caller, pvars, avars, cvars>>

\* line 308 (or line 82): the exception leaves optimize_dataset_async;
\* Celery records the failure and the worker takes the next message
WorkerRaise(w) ==
    /\ worker[w].pc = "raised"
    /\ worker' = [worker EXCEPT ![w] = IdleWorker]
    /\ UNCHANGED <<task, batch, tasksAll, caller, pvars, avars, cvars>>

\* The worker process is killed mid-run (hard time limit): no write.
WorkerKill(w) ==
    /\ worker[w].pc \notin {"idle", "resume", "raised"}
    /\ worker' = [worker EXCEPT ![w] = IdleWorker]
    /\ UNCHANGED <<task, batch, tasksAll, caller, pvars, avars, cvars>>

\* tasks.resume_task, lines 319-340: a worker runs the resume task; it finds
\* a non-terminal task and logs next_batch.  (A missing or terminal task
\* returns at once; a record without completed_batches raises KeyError.)
WorkerResume(w) ==
    \E t \in TaskIds :
        /\ worker[w].pc = "idle"
        /\ Exists(t)
        /\ get_task(t).status \notin {"completed", "failed"}
        /\ next_batch_to_process(t) # Absent
        /\ worker' = [worker EXCEPT ![w] =
              [IdleWorker EXCEPT !.pc = "resume", !.task_id = t,
                                 !.k = next_batch_to_process(t)]]
        /\ UNCHANGED <<task, batch, tasksAll, caller, pvars, avars, cvars>>

\* tasks.resume_task, lines 342-343: the pickup is a TODO; the task returns
\* without enqueueing or running anything.
WorkerResumeReturn(w) ==
    /\ worker[w].pc = "resume"
    /\ worker' = [worker EXCEPT ![w] = IdleWorker]
    /\ UNCHANGED <<task, batch, tasksAll, caller, pvars, avars, cvars>>

WorkerStep(w) ==
    \/ WorkerStart(w)
    \/ WorkerDiagnostic(w)
    \/ WorkerOptimization(w)
    \/ WorkerOptBatch(w)
    \/ WorkerVerification(w)
    \/ WorkerVerifyBatch(w)
    \/ WorkerCleaning(w)
    \/ WorkerComplete(w)
    \/ WorkerFail(w)
    \/ WorkerInitFail(w)
    \/ WorkerRaise(w)
    \/ WorkerResume(w)
    \/ WorkerResumeReturn(w)

Next ==
    \/ CreateTask
    \/ DeleteTask
    \/ \E c \in Callers : UbpRead(c)
    \/ \E c \in Callers : UbpStoreBatch(c)
    \/ \E c \in Callers : UbpStoreStatus(c)
    \/ \E w \in Workers : WorkerStep(w)
    \/ \E w \in Workers : WorkerKill(w)

Spec == Init /\ [][Next]_vars

\* One worker alone with the store: jobs run, fail, are killed and are
\* resumed, and no other client writes.
SoloSpec ==
    Init /\ [][\/ \E w \in Workers : WorkerStep(w)
               \/ \E w \in Workers : WorkerKill(w)]_vars

\* ------------------------------------------------------- configuration
\* config.RAG_CONFIDENCE_THRESHOLD (0.8), in tenths
RAG_CONFIDENCE_THRESHOLD == 8

\* config.RAG_ENABLE_SELF_CORRECTION (environment default "true")
RAG_ENABLE_SELF_CORRECTION == TRUE

\* config.RAG_RETRIEVAL_TOP_K
RAG_RETRIEVAL_TOP_K == 5

\* =================================================== the pipeline: agents
\* The questions of a dataset, by position.
Question(i) == <<"q1", "q2", "q3", "q4">>[i]

\* DiagnosticAgent._check_has_think_field and
\* OptimizationAgent._check_has_think_field (the same code): a think key
\* among the first min(10, n) records.
check_has_think_field(dataset) ==
    \E i \in 1..Len(dataset) : i <= 10 /\ dataset[i].think # NA

\* reasoning_fields of _analyze_reasoning_quality; the seventh is the
\* Chinese key (thinking process), written in Latin letters here
reasoning_fields ==
    {"reasoning", "rationale", "explanation", "steps", "cot",
     "chain_of_thought", "sikao_guocheng"}

\* DiagnosticAgent._analyze_reasoning_quality: the records without a
\* non-empty reasoning field or with an answer shorter than 50 characters,
\* in dataset order, each with its 0-based index.
analyze_reasoning_quality(dataset) ==
    LET
        \* len(str(answer)) of the answers of the model: "short" stands for an
        \* answer of fewer than 50 characters, "long" for one of 50 or more, "X"
        \* is the corrected answer of a verifier.
        AnswerLen(answer) == IF answer = "long" THEN 50 ELSE 5
        \* sample.get("answer", sample.get("output", "")): a key the record does
        \* not have is NA or not a field of the record
        get_answer(sample) ==
            IF sample.answer # NA THEN sample.answer
            ELSE IF "output" \in DOMAIN sample /\ sample.output # NA
                 THEN sample.output
                 ELSE ""
    IN
    LET low(i) ==
            LET has_reasoning ==
                    \E field \in reasoning_fields \cap DOMAIN dataset[i] :
                        dataset[i][field] \notin {NA, ""}
                is_too_short == AnswerLen(get_answer(dataset[i])) < 50
            IN  ~has_reasoning \/ is_too_short
        idx == SelectSeq([i \in 1..Len(dataset) |-> i], low)
    IN  [j \in 1..Len(idx) |->
            [index |-> idx[j] - 1, sample |-> dataset[idx[j]]]]

\* sparse_clusters of diagnose_full and of diagnose_guided
sparse_clusters(dataset, mode, guidance) ==
    LET
        \* DiagnosticAgent._analyze_semantic_distribution: nothing for fewer than
        \* 10 records; otherwise the clusters of fewer than 20 records that the
        \* embedding and the clustering find (llm.clusters).
        analyze_semantic_distribution(records) ==
            IF Len(records) < 10 THEN <<>> ELSE llm.clusters
    IN
    IF mode = "auto" \/ "semantic_distribution" \in guidance.focus_areas
    THEN analyze_semantic_distribution(dataset)
    ELSE <<>>

\* DiagnosticAgent.diagnose_full: low_quality_samples
diagnose_full(dataset) ==
    IF check_has_think_field(dataset)
    THEN analyze_reasoning_quality(dataset)
    ELSE <<>>

\* llm_client.chat on an optimization prompt for a record, by the kind of
\* external model: "rewrite" answers with a JSON object that carries a new
\* reasoning, "echo" with a JSON object of the record's own question,
\* reasoning and answer (a key the record lacks is missing), "garbage" with
\* text json.loads rejects; "raises" raises an exception.
chat_optimize(sample) ==
    [raised |-> llm.optimize = "raises",
     parseable |-> llm.optimize \in {"rewrite", "echo"},
     text |-> "raw",
     question |-> sample.question,
     reasoning |-> IF llm.optimize = "rewrite" THEN "R" ELSE sample.reasoning,
     answer |-> sample.answer]

RECURSIVE Sum(_)
Sum(s) == IF s = <<>> THEN 0 ELSE Head(s) + Sum(Tail(s))

\* OptimizationAgent.optimize_samples.  Without a think field the dataset
\* is returned as it is.  Otherwise: the records whose index is not in the
\* low-quality list (the set of indices is iterated in increasing order),
\* then one record per low-quality item.  calls is the number of chat calls
\* made.
optimize_samples(dataset, low_quality_samples, mode, guidance) ==
    LET
        \* OptimizationAgent.optimize_samples, lines 61-79: one low-quality item.
        \* A chat call that raises keeps the original sample and is not counted.
        optimize_one(lq_item) ==
            LET
                \* OptimizationAgent._add_cot_reasoning (after the chat call returned)
                add_cot_reasoning(sample) ==
                    LET parsed == chat_optimize(sample) IN
                    IF parsed.parseable
                    THEN [sample EXCEPT
                            !.reasoning = IF parsed.reasoning = NA THEN "" ELSE parsed.reasoning,
                            !.answer = IF parsed.answer = NA THEN sample.answer
                                       ELSE parsed.answer]
                    ELSE [sample EXCEPT !.reasoning = parsed.text]
                \* OptimizationAgent._optimize_with_guidance (after the chat call returned)
                optimize_with_guidance(sample, guide) ==
                    LET parsed == chat_optimize(sample) IN
                    IF parsed.parseable
                    THEN [sample EXCEPT
                            !.question = IF parsed.question = NA THEN sample.question
                                         ELSE parsed.question,
                            !.reasoning = IF parsed.reasoning = NA THEN "" ELSE parsed.reasoning,
                            !.answer = IF parsed.answer = NA THEN sample.answer
                                       ELSE parsed.answer]
                    ELSE [sample EXCEPT !.reasoning = parsed.text]
            IN
            LET sample == lq_item.sample
                optimized == IF mode = "auto" THEN add_cot_reasoning(sample)
                             ELSE optimize_with_guidance(sample, guidance)
            IN  IF chat_optimize(sample).raised
                THEN [sample |-> sample, success |-> 0]
                ELSE [sample |-> [optimized EXCEPT !.optimized = TRUE],
                      success |-> 1]
    IN
    IF ~check_has_think_field(dataset)
    THEN [samples |-> dataset, count |-> 0,
          high_quality_kept |-> Len(dataset), calls |-> 0]
    ELSE
        LET low == {low_quality_samples[j].index :
                        j \in 1..Len(low_quality_samples)}
            high(idx) == idx \notin low
            high_quality_indices ==
                SelectSeq([i \in 1..Len(dataset) |-> i - 1], high)
            kept == [j \in 1..Len(high_quality_indices) |->
                        dataset[high_quality_indices[j] + 1]]
            done == [j \in 1..Len(low_quality_samples) |->
                        optimize_one(low_quality_samples[j])]
        IN  [samples |-> kept \o [j \in 1..Len(done) |-> done[j].sample],
             count |-> Sum([j \in 1..Len(done) |-> done[j].success]),
             high_quality_kept |-> Len(high_quality_indices),
             calls |-> Len(low_quality_samples)]

RECURSIVE generate_samples(_, _, _)

generate_samples_always(clusters, mode, guidance) ==
    [samples |-> <<[Sample("g", NA, "R", "long") EXCEPT !.generated = TRUE]>>,
     count |-> 1, calls |-> 1]

\* OptimizationAgent.generate_samples: for every sparse cluster one chat
\* call asking for max(5, 50 - size) records, each marked _generated; a
\* call that raises contributes nothing.
generate_samples(clusters, mode, guidance) ==
    LET
        \* _generate_similar_samples and _generate_with_guidance: one chat call
        \* for a cluster; a JSON array gives its first target_count records (the
        \* models here answer with one record), text json.loads rejects gives
        \* none.
        chat_generate(cluster, target_count) ==
            IF llm.optimize \in {"rewrite", "echo"} /\ target_count > 0
            THEN <<Sample("g", NA, "R", "long")>>
            ELSE <<>>
    IN
    IF clusters = <<>>
    THEN [samples |-> <<>>, count |-> 0, calls |-> 0]
    ELSE
        LET cluster == Head(clusters)
            target_count == IF 50 - cluster.size > 5 THEN 50 - cluster.size
                            ELSE 5
            new_samples == IF llm.optimize = "raises" THEN <<>>
                           ELSE chat_generate(cluster, target_count)
            rest == generate_samples(Tail(clusters), mode, guidance)
        IN  [samples |-> [j \in 1..Len(new_samples) |->
                            [new_samples[j] EXCEPT !.generated = TRUE]]
                         \o rest.samples,
             count |-> Len(new_samples) + rest.count,
             calls |-> 1 + rest.calls]

\* KnowledgeBaseManager.search: nothing from an empty knowledge base,
\* otherwise the min(top_k, len(documents)) nearest documents, top_k being
\* config.RAG_RETRIEVAL_TOP_K.
search(knowledge_base) ==
    SubSeq(knowledge_base, 1,
           IF Len(knowledge_base) < RAG_RETRIEVAL_TOP_K
           THEN Len(knowledge_base) ELSE RAG_RETRIEVAL_TOP_K)

\* VerificationAgent._verify_single, given the retrieved documents, the
\* response of the chat call and config.RAG_ENABLE_SELF_CORRECTION.
\* confidence and the threshold are in tenths.
verify_single(sample, retrieved_docs, response, self_correction) ==
    LET reasoning == IF sample.reasoning = NA THEN "" ELSE sample.reasoning
    IN
    IF retrieved_docs = <<>>
    THEN [status |-> "passed", corrected_sample |-> sample]
    ELSE IF ~response.parseable
    THEN [status |-> "passed", corrected_sample |-> sample]
    ELSE IF /\ response.is_correct
            /\ response.confidence >= RAG_CONFIDENCE_THRESHOLD
    THEN [status |-> "passed", corrected_sample |-> sample]
    ELSE IF /\ self_correction
            /\ response.corrected_answer \notin {NA, ""}
    THEN [status |-> "corrected",
          corrected_sample |->
              [sample EXCEPT
                 !.answer = response.corrected_answer,
                 !.reasoning = IF response.corrected_reasoning = NA
                               THEN reasoning
                               ELSE response.corrected_reasoning,
                 !.corrected = TRUE]]
    ELSE [status |-> "rejected", corrected_sample |-> sample]

verified_samples_all(passed, corrected, rejected) ==
    passed \o corrected \o rejected

\* VerificationAgent.verify_batch, line 58: what goes forward
verified_samples(passed, corrected, rejected) == passed \o corrected

verify_each_dropping(samples, retrieved_docs, responses, raises) ==
    LET verdict(i) ==
            verify_single(samples[i], retrieved_docs, responses[i],
                          RAG_ENABLE_SELF_CORRECTION)
        all == [i \in 1..Len(samples) |-> i]
        is_passed(i) == i \notin raises /\ verdict(i).status = "passed"
        is_corrected(i) == i \notin raises /\ verdict(i).status = "corrected"
        is_rejected(i) == i \notin raises /\ verdict(i).status = "rejected"
        p == SelectSeq(all, is_passed)
        c == SelectSeq(all, is_corrected)
        r == SelectSeq(all, is_rejected)
        passed == [j \in 1..Len(p) |-> samples[p[j]]]
        corrected == [j \in 1..Len(c) |-> verdict(c[j]).corrected_sample]
        rejected == [j \in 1..Len(r) |-> samples[r[j]]]
    IN  [passed |-> passed, corrected |-> corrected, rejected |-> rejected,
         verified_samples |-> verified_samples(passed, corrected, rejected),
         stats |-> [total |-> Len(samples), passed |-> Len(passed),
                    corrected |-> Len(corrected),
                    rejected |-> Len(rejected)]]

\* VerificationAgent.verify_batch, lines 30-63, given what search returns,
\* the verifier's response for each sample and the samples whose
\* _verify_single raises: a sample goes to passed, its corrected copy to
\* corrected, or the sample to rejected; an exception rejects the sample.
verify_each(samples, retrieved_docs, responses, raises) ==
    LET verdict(i) ==
            verify_single(samples[i], retrieved_docs, responses[i],
                          RAG_ENABLE_SELF_CORRECTION)
        all == [i \in 1..Len(samples) |-> i]
        is_passed(i) == i \notin raises /\ verdict(i).status = "passed"
        is_corrected(i) == i \notin raises /\ verdict(i).status = "corrected"
        is_rejected(i) == i \in raises \/ verdict(i).status = "rejected"
        p == SelectSeq(all, is_passed)
        c == SelectSeq(all, is_corrected)
        r == SelectSeq(all, is_rejected)
        passed == [j \in 1..Len(p) |-> samples[p[j]]]
        corrected == [j \in 1..Len(c) |-> verdict(c[j]).corrected_sample]
        rejected == [j \in 1..Len(r) |-> samples[r[j]]]
    IN  [passed |-> passed, corrected |-> corrected, rejected |-> rejected,
         verified_samples |-> verified_samples(passed, corrected, rejected),
         stats |-> [total |-> Len(samples), passed |-> Len(passed),
                    corrected |-> Len(corrected),
                    rejected |-> Len(rejected)]]

\* VerificationAgent.verify_batch in a run: the knowledge base of the
\* process is searched and the external model of the run answers (it does
\* not raise); calls counts the chat calls made.
verify_batch(samples) ==
    LET
        \* llm_client.chat on a verification prompt (not called when nothing was
        \* retrieved): the external model answers by the record's question and
        \* the documents shown.
        chat_verify(sample, retrieved_docs) ==
            llm.verify[<<sample.question, Len(retrieved_docs)>>]
    IN
    LET retrieved_docs == search(documents[run.path])
        out == verify_each(samples, retrieved_docs,
                           [i \in 1..Len(samples) |->
                               chat_verify(samples[i], retrieved_docs)],
                           {})
    IN  [verified_samples |-> out.verified_samples,
         rejected |-> out.rejected,
         calls |-> IF retrieved_docs = <<>> THEN 0 ELSE Len(samples)]

\* analyzer.analyze on the texts of the model: the entity of
\* config.PII_ENTITIES the text consists of, NA for a text without one.
analyze(text) ==
    CASE text = "13800138000" -> "PHONE_NUMBER"
      [] text = "a@b.com" -> "EMAIL_ADDRESS"
      [] text = "192.168.1.1" -> "IP_ADDRESS"
      [] OTHER -> NA

\* CleaningAgent._clean_sample: every string value through _clean_text,
\* every other value copied (a key the record lacks stays missing);
\* <<cleaned_sample, was_cleaned>>
clean_sample(sample) ==
    LET
        \* CleaningAgent._clean_text: <<cleaned_text, was_cleaned>>.  An empty
        \* text (or one of fewer than 3 characters) and a text in which the
        \* analyzer finds nothing are returned as they are.
        clean_text(text) ==
            LET
                \* anonymizer.anonymize with the operators of lines 108-114: the entity is
                \* replaced by the new_value of its operator, by that of DEFAULT when it
                \* has none.  "[PERSON]", "[PHONE]", "[EMAIL]" and "[LOCATION]" stand for
                \* the four new_value strings of the source.
                anonymize(entity) ==
                    CASE entity = "PERSON" -> "[PERSON]"
                      [] entity = "PHONE_NUMBER" -> "[PHONE]"
                      [] entity = "EMAIL_ADDRESS" -> "[EMAIL]"
                      [] entity = "LOCATION" -> "[LOCATION]"
                      [] OTHER -> "[REDACTED]"
            IN
            IF text = "" \/ analyze(text) = NA
            THEN <<text, FALSE>>
            ELSE <<anonymize(analyze(text)), TRUE>>
    IN
    LET cleaned(value) == IF value = NA THEN <<NA, FALSE>>
                          ELSE clean_text(value)
    IN  <<[sample EXCEPT !.question = cleaned(@)[1],
                         !.think = cleaned(@)[1],
                         !.reasoning = cleaned(@)[1],
                         !.answer = cleaned(@)[1]],
          \E value \in {sample.question, sample.think, sample.reasoning,
                         sample.answer} : cleaned(value)[2]>>

\* CleaningAgent.clean_dataset with the engines built: cleaned_dataset
clean_dataset(dataset) ==
    [i \in 1..Len(dataset) |-> clean_sample(dataset[i])[1]]

\* ================================================== the pipeline: inputs
Datasets ==
    LET
        \* Records of the requests: with or without a think key, and either
        \* without reasoning and with a short answer, or with both.
        RecordKinds ==
            {NA, "t"} \X {<<NA, "short">>, <<"r", "long">>}
    IN
    UNION {{[i \in 1..n |->
                Sample(Question(i), kind[i][1], kind[i][2][1], kind[i][2][2])] :
            kind \in [1..n -> RecordKinds]} : n \in 0..MaxRecords}

\* Verifier judgements: correct; wrong with a corrected answer; wrong
\* without one.
Verdicts ==
    {Judgement(TRUE, RAG_CONFIDENCE_THRESHOLD + 1, NA, NA),
     Judgement(FALSE, RAG_CONFIDENCE_THRESHOLD + 1, "X", NA),
     Judgement(FALSE, RAG_CONFIDENCE_THRESHOLD + 1, NA, NA)}

\* What a verification prompt is made of: the question of the record and
\* the retrieved documents (here: how many of them).
Prompts(dataset, doc_counts) ==
    LET
        Questions(records) == {records[i].question : i \in 1..Len(records)}
    IN
    Questions(dataset) \X doc_counts

\* A request and a deterministic external model; with an empty knowledge
\* base the verifier is never asked.
PipelineInit ==
    LET
        \* The external models a request is run against.
        OptimizeKinds == {"echo", "rewrite", "garbage", "raises"}
        Guidances ==
            {NoGuidance,
             [given |-> TRUE, focus_areas |-> {"reasoning_quality"},
              problem_indices |-> <<>>],
             [given |-> TRUE, focus_areas |-> {"reasoning_quality"},
              problem_indices |-> <<0>>],
             [given |-> TRUE, focus_areas |-> {}, problem_indices |-> <<0>>],
             [given |-> TRUE, focus_areas |-> {"semantic_distribution"},
              problem_indices |-> <<>>]}
        \* What the embedding and HDBSCAN find when they are run, which is for
        \* 10 records or more: no sparse cluster, or all records in one.
        Clusterings(dataset) ==
            IF Len(dataset) < 10 THEN {<<>>}
            ELSE {<<>>, <<[cluster_id |-> 0, size |-> Len(dataset)]>>}
    IN
    /\ StoreInit
    /\ vcase = NoCase
    /\ request \in
          {[dataset |-> ds, knowledge_base |-> kb,
            optimization_guidance |-> g] :
           ds \in Datasets, kb \in {<<>>, <<"d1">>}, g \in Guidances}
    /\ llm \in
          {[optimize |-> o, verify |-> v, clusters |-> c] :
           o \in OptimizeKinds, c \in Clusterings(request.dataset),
           v \in IF request.knowledge_base = <<>>
                 THEN {[a \in Prompts(request.dataset, 0..0) |->
                          Judgement(TRUE, RAG_CONFIDENCE_THRESHOLD + 1, NA, NA)]}
                 ELSE [Prompts(request.dataset,
                               {Len(request.knowledge_base)}) -> Verdicts]}
    /\ run = IdleRun
    /\ result = [p \in Paths |-> NoResult]
    /\ KbIdle
    /\ ApiIdle
    /\ CasesIdle

\* ========================= synchronous path: DataOptimizationWorkflow.run
next_node_skips(node) ==
    CASE node = "mode_selector" -> "diagnostic"
      [] node = "diagnostic" -> "optimization"
      [] node = "optimization" -> "cleaning"
      [] node = "verification" -> "cleaning"
      [] node = "cleaning" -> "END"

\* _build_graph: the edge that leaves each node
next_node(node) ==
    CASE node = "mode_selector" -> "diagnostic"
      [] node = "diagnostic" -> "optimization"
      [] node = "optimization" -> "verification"
      [] node = "verification" -> "cleaning"
      [] node = "cleaning" -> "END"

\* KnowledgeBaseManager.add_knowledge: the texts are appended to the
\* documents the process already holds (nothing for an empty list)
add_knowledge(docs, texts) == docs \o texts

\* run, lines 287-318: the knowledge base of the request is loaded, the
\* initial state enters the graph at its entry point
SyncStart ==
    /\ run.pc = "idle"
    /\ ~result["sync"].done
    /\ run' = [IdleRun EXCEPT !.path = "sync", !.pc = "mode_selector",
                              !.mode = "auto"]
    /\ documents' = [documents EXCEPT !["sync"] =
                        add_knowledge(@, request.knowledge_base)]
    /\ UNCHANGED <<vars, avars, cvars, request, llm, result, vcase, history>>

\* graph.invoke runs the node the run stands at and follows its edge
Node(node, state) ==
    /\ run.path = "sync"
    /\ run.pc = node
    /\ run' = [state EXCEPT !.pc = next_node(node),
                            !.trail = Append(@, node)]
    /\ UNCHANGED <<vars, avars, cvars, request, llm, result, vcase, documents, history>>

\* _select_mode: guided when optimization_guidance is not None
select_mode(guidance) == IF guidance.given THEN "guided" ELSE "auto"

SelectMode ==
    Node("mode_selector",
         [run EXCEPT !.mode = select_mode(request.optimization_guidance)])

\* the diagnosis by mode (workflow_graph.py 141-149, tasks.py 107-108)
diagnose(mode) ==
    LET
        \* DiagnosticAgent.diagnose_guided: low_quality_samples
        diagnose_guided(dataset, guidance) ==
            LET flagged ==
                    IF /\ "reasoning_quality" \in guidance.focus_areas
                       /\ check_has_think_field(dataset)
                    THEN analyze_reasoning_quality(dataset)
                    ELSE <<>>
                inside(idx) == idx < Len(dataset)
                chosen == SelectSeq(guidance.problem_indices, inside)
            IN  flagged \o
                [j \in 1..Len(chosen) |->
                    [index |-> chosen[j], sample |-> dataset[chosen[j] + 1]]]
    IN
    IF mode = "auto"
    THEN diagnose_full(request.dataset)
    ELSE diagnose_guided(request.dataset, request.optimization_guidance)

RunDiagnostic ==
    Node("diagnostic",
         [run EXCEPT !.sparse_clusters =
                        sparse_clusters(request.dataset, run.mode,
                                        request.optimization_guidance),
                     !.low_quality_samples = diagnose(run.mode)])

\* _run_optimization: optimize_samples over the whole low-quality list,
\* generate_samples over the sparse clusters
RunOptimization ==
    LET optimized_result ==
            optimize_samples(request.dataset, run.low_quality_samples,
                             run.mode, request.optimization_guidance)
        generated_result ==
            generate_samples(run.sparse_clusters, run.mode,
                             request.optimization_guidance)
    IN  Node("optimization",
             [run EXCEPT !.optimized_samples = optimized_result.samples,
                         !.generated_samples = generated_result.samples,
                         !.optimized_count = optimized_result.count,
                         !.generated_count = generated_result.count,
                         !.calls = @ + optimized_result.calls
                                     + generated_result.calls])

\* _run_verification: one verify_batch over all samples, if there are any
RunVerification ==
    LET samples_to_verify == run.optimized_samples \o run.generated_samples
        res == verify_batch(samples_to_verify)
    IN  Node("verification",
             IF samples_to_verify # <<>>
             THEN [run EXCEPT !.verified_samples = res.verified_samples,
                              !.rejected = res.rejected,
                              !.calls = @ + res.calls]
             ELSE [run EXCEPT !.verified_samples = <<>>])

\* _run_cleaning
RunCleaning ==
    Node("cleaning",
         [run EXCEPT !.final_dataset = clean_dataset(run.verified_samples)])

\* run, lines 320-341: the result
SyncReturn ==
    /\ run.path = "sync"
    /\ run.pc = "END"
    /\ result' = [result EXCEPT !["sync"] =
          [done |-> TRUE, status |-> NA,
           final_dataset |-> run.final_dataset,
           input_size |-> Len(request.dataset),
           output_size |-> Len(run.final_dataset),
           optimized_count |-> run.optimized_count,
           generated_count |-> run.generated_count,
           calls |-> run.calls]]
    /\ run' = IdleRun
    /\ UNCHANGED <<vars, avars, cvars, request, llm, vcase, documents, history>>

\* ================================ worker path: optimize_dataset_async
Min(a, b) == IF a < b THEN a ELSE b

BatchOverlapping(list, batch_idx, batch_size) ==
    SubSeq(list, batch_idx * batch_size + 1,
           Min(batch_idx * batch_size + batch_size + 1, Len(list)))

\* list[start_idx:end_idx] of batch batch_idx (0-based)
Batch(list, batch_idx, batch_size) ==
    SubSeq(list, batch_idx * batch_size + 1,
           Min(batch_idx * batch_size + batch_size, Len(list)))

\* One statement block of the job: the new locals, the stage it enters
\* (if it enters one) and the current_phase it writes.
JobStep(pc, state, stage, current_phase) ==
    /\ run.path = "async"
    /\ run.pc = pc
    /\ run' = [state EXCEPT
                 !.trail = IF stage = NA THEN @ ELSE Append(@, stage),
                 !.phase_log = Append(@, current_phase)]
    /\ UNCHANGED <<vars, avars, cvars, request, llm, result, vcase, documents, history>>

\* lines 86-97: the mode is chosen, status = processing is written, the
\* knowledge base of the message is loaded
JobStart ==
    /\ run.pc = "idle"
    /\ ~result["async"].done
    /\ run' = [IdleRun EXCEPT
                 !.path = "async", !.pc = "l104", !.status = "processing",
                 !.mode = IF Truthy(request.optimization_guidance)
                          THEN "guided" ELSE "auto",
                 !.trail = <<"mode_selector">>,
                 !.phase_log = <<"diagnostic">>]
    /\ documents' = [documents EXCEPT !["async"] =
                        add_knowledge(@, request.knowledge_base)]
    /\ UNCHANGED <<vars, avars, cvars, request, llm, result, vcase, history>>

\* lines 104-116
JobDiagnostic ==
    JobStep("l104",
            [run EXCEPT !.pc = "l123",
                        !.sparse_clusters =
                            sparse_clusters(request.dataset, run.mode,
                                            request.optimization_guidance),
                        !.low_quality_samples = diagnose(run.mode)],
            "diagnostic", "diagnostic")

\* lines 123-131: optimized_samples = [], the batches of the low-quality
\* list are counted
JobOptimization ==
    LET total_batches == CeilDiv(Len(run.low_quality_samples), BATCH_SIZE)
    IN  JobStep("l123",
                [run EXCEPT !.pc = IF run.low_quality_samples # <<>>
                                   THEN "opt" ELSE "l207",
                            !.opt = <<0, total_batches>>],
                "optimization", "optimization")

\* lines 133-159: one optimization batch; the samples optimize_samples
\* returns for it are appended.  (Lines 161-196: generated_samples stays
\* empty, total_to_generate being 0 for every list of clusters.)
JobOptBatch ==
    LET batch_idx == run.opt[1]
        total_batches == run.opt[2]
        batch_samples == Batch(run.low_quality_samples, batch_idx, BATCH_SIZE)
        batch_result ==
            optimize_samples(request.dataset, batch_samples, run.mode,
                             request.optimization_guidance)
    IN  /\ batch_idx < total_batches
        /\ JobStep("opt",
              [run EXCEPT !.optimized_samples = @ \o batch_result.samples,
                          !.calls = @ + batch_result.calls,
                          !.opt = <<batch_idx + 1, total_batches>>,
                          !.pc = IF batch_idx + 1 = total_batches
                                 THEN "l207" ELSE "opt"],
              NA, "optimization")

\* lines 207-216
JobVerification ==
    LET samples_to_verify == run.optimized_samples \o run.generated_samples
        total_batches == CeilDiv(Len(samples_to_verify), BATCH_SIZE)
    IN  JobStep("l207",
                [run EXCEPT !.pc = IF samples_to_verify # <<>>
                                   THEN "verify" ELSE "l245",
                            !.ver = <<0, total_batches>>],
                "verification", "verification")

\* lines 218-236: one verification batch
JobVerifyBatch ==
    LET batch_idx == run.ver[1]
        total_batches == run.ver[2]
        batch_samples == Batch(run.optimized_samples \o run.generated_samples,
                               batch_idx, BATCH_SIZE)
        batch_result == verify_batch(batch_samples)
    IN  /\ batch_idx < total_batches
        /\ JobStep("verify",
              [run EXCEPT !.verified_samples = @ \o batch_result.verified_samples,
                          !.rejected = @ \o batch_result.rejected,
                          !.calls = @ + batch_result.calls,
                          !.ver = <<batch_idx + 1, total_batches>>,
                          !.pc = IF batch_idx + 1 = total_batches
                                 THEN "l245" ELSE "verify"],
              NA, "verification")

\* lines 245-250
JobCleaning ==
    JobStep("l245",
            [run EXCEPT !.pc = "l290",
                        !.final_dataset = clean_dataset(run.verified_samples)],
            "cleaning", "cleaning")

\* lines 252-303: statistics (optimized_count = len(optimized_samples)),
\* complete_task, return
JobComplete ==
    /\ run.path = "async"
    /\ run.pc = "l290"
    /\ result' = [result EXCEPT !["async"] =
          [done |-> TRUE, status |-> "completed",
           final_dataset |-> run.final_dataset,
           input_size |-> Len(request.dataset),
           output_size |-> Len(run.final_dataset),
           optimized_count |-> Len(run.optimized_samples),
           generated_count |-> Len(run.generated_samples),
           calls |-> run.calls]]
    /\ run' = IdleRun
    /\ UNCHANGED <<vars, avars, cvars, request, llm, vcase, documents, history>>

PipelineNext ==
    \/ SyncStart
    \/ SelectMode
    \/ RunDiagnostic
    \/ RunOptimization
    \/ RunVerification
    \/ RunCleaning
    \/ SyncReturn
    \/ JobStart
    \/ JobDiagnostic
    \/ JobOptimization
    \/ JobOptBatch
    \/ JobVerification
    \/ JobVerifyBatch
    \/ JobCleaning
    \/ JobComplete

PipelineSpec == PipelineInit /\ [][PipelineNext]_pvars

\* ============================= one call of _verify_single: VerifySpec
VerifyInit ==
    LET
        \* Every response the verifier can give: unparseable text, or a judgement
        \* with a confidence just below, at and above the threshold, with or
        \* without a corrected answer and a corrected reasoning.
        Responses ==
            {Unparseable} \cup
            {Judgement(is_correct, confidence, corrected_answer, corrected_reasoning) :
                is_correct \in BOOLEAN,
                confidence \in (RAG_CONFIDENCE_THRESHOLD - 1)
                                   ..(RAG_CONFIDENCE_THRESHOLD + 1),
                corrected_answer \in {NA, "X"},
                corrected_reasoning \in {NA, "CR"}}
    IN
    /\ StoreInit
    /\ request = NoRequest
    /\ llm = NoLlm
    /\ run = IdleRun
    /\ result = [p \in Paths |-> NoResult]
    /\ KbIdle
    /\ ApiIdle
    /\ CasesIdle
    /\ vcase \in
          {[sample |-> Sample("q1", NA, reasoning, "short"), docs |-> docs,
            response |-> response, self_correction |-> self_correction,
            status |-> NA,
            corrected_sample |-> Sample("q1", NA, reasoning, "short")] :
           reasoning \in {NA, "r"}, docs \in {<<>>, <<"d1">>},
           response \in Responses, self_correction \in BOOLEAN}

\* the call returns its status (and corrected_sample)
VerifySingle ==
    LET res == verify_single(vcase.sample, search(vcase.docs),
                             vcase.response, vcase.self_correction)
    IN  /\ vcase.status = NA
        /\ vcase' = [vcase EXCEPT !.status = res.status,
                                  !.corrected_sample = res.corrected_sample]
        /\ UNCHANGED <<vars, avars, cvars, request, llm, run, result, documents, history>>

VerifySpec == VerifyInit /\ [][VerifySingle]_pvars

\* ================== the same input again on one worker process: RepeatSpec
\* An input and a deterministic external model whose verdict on a record
\* is a function of the verification prompt: the question and the
\* documents retrieved for it.
RepeatInit ==
    /\ StoreInit
    /\ vcase = NoCase
    /\ request \in
          {[dataset |-> ds, knowledge_base |-> kb,
            optimization_guidance |-> NoGuidance] :
           ds \in Datasets, kb \in {<<>>, <<"d1">>}}
    /\ llm \in
          {[optimize |-> o, verify |-> v, clusters |-> <<>>] :
           o \in {"rewrite", "raises"},
           v \in IF request.knowledge_base = <<>>
                 THEN {[a \in Prompts(request.dataset, 0..0) |->
                          Judgement(TRUE, RAG_CONFIDENCE_THRESHOLD + 1, NA, NA)]}
                 ELSE [Prompts(request.dataset,
                               1..(MaxJobs * Len(request.knowledge_base)))
                       -> Verdicts]}
    /\ run = IdleRun
    /\ result = [p \in Paths |-> NoResult]
    /\ KbIdle
    /\ ApiIdle
    /\ CasesIdle

\* The job has returned; the task is deleted and the same input is sent to
\* the same worker process again.  history keeps the size of the final
\* dataset of the job that ended; the worker's knowledge base is the
\* process's, not the job's, and stays as it is.
Resubmit ==
    /\ result["async"].done
    /\ run.pc = "idle"
    /\ Len(history) < MaxJobs - 1
    /\ history' = Append(history, Len(result["async"].final_dataset))
    /\ result' = [result EXCEPT !["async"] = NoResult]
    /\ UNCHANGED <<vars, avars, cvars, request, llm, run, vcase, documents>>

RepeatNext ==
    \/ JobStart
    \/ JobDiagnostic
    \/ JobOptimization
    \/ JobOptBatch
    \/ JobVerification
    \/ JobVerifyBatch
    \/ JobCleaning
    \/ JobComplete
    \/ Resubmit

RepeatSpec == RepeatInit /\ [][RepeatNext]_pvars

\* ======================== _check_has_think_field of both agents: ThinkSpec
\* A record is the set of its keys here.
PlainKeys == {"question", "answer"}

lower_exact(key) == key

\* str.lower on the keys above
lower(key) ==
    CASE key = "THINK" -> "think"
      [] key = "Think" -> "think"
      [] key = "Thinking" -> "thinking"
      [] OTHER -> key

ThinkInit ==
    LET
        \* Datasets of up to MaxThinkLen records, at most MaxKeyed of them with a
        \* further key
        ThinkDatasets ==
            LET
                \* The further key a record may have
                ExtraKeys == {"think", "THINK", "Think", "thinking", "Thinking", "reasoning"}
            IN
            UNION {UNION {{[i \in 1..n |-> IF i \in P THEN PlainKeys \cup {k[i]}
                                          ELSE PlainKeys] :
                           k \in [P -> ExtraKeys]} :
                          P \in {Q \in SUBSET (1..n) : Cardinality(Q) <= MaxKeyed}} :
                   n \in 0..MaxThinkLen}
    IN
    /\ StoreInit
    /\ request = NoRequest
    /\ llm = NoLlm
    /\ run = IdleRun
    /\ result = [p \in Paths |-> NoResult]
    /\ vcase = NoCase
    /\ KbIdle
    /\ ApiIdle
    /\ tcase \in {[NoThinkCase EXCEPT !.dataset = ds] : ds \in ThinkDatasets}
    /\ ccase = NoCleanCase
    /\ CallsIdle

\* the diagnostic stage looks at the dataset (diagnose_full, line 31)
DiagnosticCheck ==
    LET
        \* DiagnosticAgent._check_has_think_field
        diagnostic_check_has_think_field(dataset) ==
            IF dataset = <<>> THEN FALSE
            ELSE
                LET sample_size == IF 10 < Len(dataset) THEN 10 ELSE Len(dataset)
                IN  \E i \in 1..sample_size :
                        \E key \in dataset[i] : lower(key) = "think"
    IN
    /\ "diagnostic" \notin tcase.called
    /\ tcase' = [tcase EXCEPT
                   !.called = @ \cup {"diagnostic"},
                   !.diagnostic =
                       diagnostic_check_has_think_field(tcase.dataset)]
    /\ UNCHANGED <<vars, pvars, avars, ccase, xvars>>

\* the optimize stage looks at the same dataset (optimize_samples, line 37)
OptimizationCheck ==
    LET
        \* OptimizationAgent._check_has_think_field
        optimization_check_has_think_field(dataset) ==
            IF dataset = <<>> THEN FALSE
            ELSE
                LET sample_size == IF 10 < Len(dataset) THEN 10 ELSE Len(dataset)
                IN  \E i \in 1..sample_size :
                        \E key \in dataset[i] : lower(key) = "think"
    IN
    /\ "optimization" \notin tcase.called
    /\ tcase' = [tcase EXCEPT
                   !.called = @ \cup {"optimization"},
                   !.optimization =
                       optimization_check_has_think_field(tcase.dataset)]
    /\ UNCHANGED <<vars, pvars, avars, ccase, xvars>>

ThinkSpec == ThinkInit /\ [][DiagnosticCheck \/ OptimizationCheck]_cvars

CleanInit ==
    LET
        CleanDatasets ==
            LET
                \* ============================ CleaningAgent.clean_dataset alone: CleanSpec
                \* Verified records whose question or answer may be a text with an entity
                CleanRecords ==
                    {Sample(q, NA, NA, a) :
                        q \in {"q1", "13800138000"},
                        a \in {"short", "a@b.com", "192.168.1.1"}}
            IN
            UNION {[1..n -> CleanRecords] : n \in 0..MaxCleanLen}
    IN
    /\ StoreInit
    /\ request = NoRequest
    /\ llm = NoLlm
    /\ run = IdleRun
    /\ result = [p \in Paths |-> NoResult]
    /\ vcase = NoCase
    /\ KbIdle
    /\ ApiIdle
    /\ tcase = NoThinkCase
    /\ ccase \in {[NoCleanCase EXCEPT !.dataset = ds, !.engine = e] :
                     ds \in CleanDatasets, e \in BOOLEAN}
    /\ CallsIdle

\* one call of clean_dataset
CleanDataset ==
    LET
        \* CleaningAgent.clean_dataset: without the engines the dataset is
        \* returned as it is with cleaned_count 0; otherwise one cleaned sample
        \* per sample, in order, and the number of samples that were cleaned
        clean_dataset_result(dataset, engine) ==
            IF ~engine
            THEN [cleaned_dataset |-> dataset, cleaned_count |-> 0]
            ELSE [cleaned_dataset |-> clean_dataset(dataset),
                  cleaned_count |->
                      Cardinality({i \in 1..Len(dataset) :
                                      clean_sample(dataset[i])[2]})]
    IN
    LET res == clean_dataset_result(ccase.dataset, ccase.engine) IN
    /\ ~ccase.done
    /\ ccase' = [ccase EXCEPT !.done = TRUE,
                              !.cleaned_dataset = res.cleaned_dataset,
                              !.cleaned_count = res.cleaned_count]
    /\ UNCHANGED <<vars, pvars, avars, tcase, xvars>>

CleanSpec == CleanInit /\ [][CleanDataset]_cvars

\* ======================================= the API process: app.py, ApiSpec
\* The sizes of the datasets posted to /optimize and to /optimize/sync.
\* MaxSyncDataset is the size the synchronous endpoint is meant for
\* (docstring of optimize_dataset_sync).
MaxSyncDataset == 100

\* optimization_guidance of a posted request: None, {} or a mapping with a
\* key
ApiGuidances ==
    {NoGuidance, EmptyGuidance,
     [given |-> TRUE, focus_areas |-> {"reasoning_quality"},
      problem_indices |-> <<>>]}

\* lines 146, 210, 359: mode = "guided" if optimization_guidance else "auto"
api_mode(guidance) == IF Truthy(guidance) THEN "guided" ELSE "auto"

\* What workflow.run can do for a dataset of n records: return a final
\* dataset (kept by its size: every record, or none when verification
\* rejects them all) or raise.
Outcomes(n) ==
    {[raised |-> FALSE, size |-> k] : k \in {0, n}}
        \cup {[raised |-> TRUE, size |-> 0]}

PostOptimize ==
    LET
        AsyncSizes == {0, 1}
        \* POST /api/v1/optimize: a fresh record replaces whatever the id held,
        \* run_optimization is queued, the response tells the mode
        optimize_dataset(t, guidance, n) ==
            /\ Len(background) < MaxBackground
            /\ optimization_tasks' = [optimization_tasks EXCEPT ![t] =
                  [status |-> "processing", mode |-> api_mode(guidance),
                   dataset_size |-> n, optimized_dataset |-> Absent,
                   error |-> Absent]]
            /\ background' = Append(background,
                  [task_id |-> t, optimization_guidance |-> guidance,
                   dataset_size |-> n])
            /\ submitted' = submitted \cup {t}
            /\ reply' = [NoReply EXCEPT !.code = 200, !.endpoint = "optimize",
                                        !.task_id = t, !.status = "processing",
                                        !.mode = api_mode(guidance),
                                        !.request_size = n,
                                        !.request_guidance = guidance]
            /\ UNCHANGED <<vars, pvars, cvars>>
    IN
    \E t \in ApiTaskIds, guidance \in ApiGuidances, n \in AsyncSizes :
        optimize_dataset(t, guidance, n)

RunBackground ==
    LET
        \* run_optimization: one queued call runs to its end (it never awaits);
        \* dict.update on the record the id holds now
        run_optimization(i, outcome) ==
            LET call == background[i]
                t == call.task_id
            IN  /\ optimization_tasks' = [optimization_tasks EXCEPT ![t] =
                      IF outcome.raised
                      THEN [@ EXCEPT !.status = "failed", !.error = 1]
                      ELSE [@ EXCEPT !.status = "completed",
                                     !.optimized_dataset = outcome.size]]
                /\ background' = [j \in 1..(Len(background) - 1) |->
                                     IF j < i THEN background[j]
                                     ELSE background[j + 1]]
                /\ UNCHANGED <<vars, pvars, cvars, submitted, reply>>
    IN
    \E i \in 1..Len(background) :
        \E outcome \in Outcomes(background[i].dataset_size) :
            run_optimization(i, outcome)

GetResult ==
    LET
        \* GET /api/v1/optimize/{task_id}
        get_optimization_result(t) ==
            LET tk == optimization_tasks[t] IN
            IF tk = NoTask
            THEN [NoReply EXCEPT !.code = 404, !.endpoint = "result",
                                 !.task_id = t]
            ELSE [NoReply EXCEPT !.code = 200, !.endpoint = "result",
                                 !.task_id = t, !.status = tk.status,
                                 !.mode = tk.mode,
                                 !.optimized_dataset = tk.optimized_dataset,
                                 !.error = tk.error]
    IN
    \E t \in ApiTaskIds :
        /\ reply' = get_optimization_result(t)
        /\ UNCHANGED <<vars, pvars, cvars, optimization_tasks, background,
                       submitted>>

PostOptimizeSync ==
    LET
        SyncSizes == {0, 1, MaxSyncDataset, MaxSyncDataset + 1}
        \* POST /api/v1/optimize/sync: workflow.run on the posted dataset, whatever
        \* its size (run loads the posted knowledge base into the process's
        \* knowledge base first); the response carries the mode computed here and,
        \* in the statistics, the mode the workflow chose.  An exception gives 500.
        \* No record is written to optimization_tasks.
        optimize_dataset_sync(t, guidance, kb, n, outcome) ==
            /\ Len(documents["sync"]) + Len(kb) <= MaxDocuments
            /\ documents' = [documents EXCEPT !["sync"] = add_knowledge(@, kb)]
            /\ reply' =
                  IF outcome.raised
                  THEN [NoReply EXCEPT !.code = 500, !.endpoint = "sync",
                                       !.request_size = n,
                                       !.request_guidance = guidance,
                                       !.ran = TRUE]
                  ELSE [NoReply EXCEPT !.code = 200, !.endpoint = "sync",
                                       !.task_id = t, !.status = "completed",
                                       !.mode = api_mode(guidance),
                                       !.statistics_mode = select_mode(guidance),
                                       !.optimized_dataset = outcome.size,
                                       !.request_size = n,
                                       !.request_guidance = guidance,
                                       !.ran = TRUE]
            /\ UNCHANGED <<vars, cvars, request, llm, run, result, vcase, history,
                           optimization_tasks, background, submitted>>
    IN
    \E t \in ApiTaskIds, guidance \in ApiGuidances,
       kb \in {<<>>, <<"d1">>}, n \in SyncSizes :
        \E outcome \in Outcomes(n) :
            optimize_dataset_sync(t, guidance, kb, n, outcome)

ApiInit ==
    /\ StoreInit
    /\ request = NoRequest
    /\ llm = NoLlm
    /\ run = IdleRun
    /\ result = [p \in Paths |-> NoResult]
    /\ vcase = NoCase
    /\ KbIdle
    /\ ApiIdle
    /\ CasesIdle

\* The asynchronous endpoint, its background runs and the result endpoint
ApiSpec == ApiInit /\ [][PostOptimize \/ RunBackground \/ GetResult]_avars

\* The synchronous endpoint, called any number of times on one process
SyncApiSpec == ApiInit /\ [][PostOptimizeSync]_<<avars, documents>>

\* ============ the batched loops of optimize_dataset_async: BatchSpec
BatchInit ==
    LET
        \* The optimization loop (lines 127-159) runs over low_quality_samples, the
        \* verification loop (lines 212-236) over samples_to_verify; both cut the
        \* list the same way.
        BatchStages == {"optimization", "verification"}
    IN
    /\ StoreInit
    /\ request = NoRequest
    /\ llm = NoLlm
    /\ run = IdleRun
    /\ result = [p \in Paths |-> NoResult]
    /\ vcase = NoCase
    /\ KbIdle
    /\ ApiIdle
    /\ tcase = NoThinkCase
    /\ ccase = NoCleanCase
    /\ ret = NoCall
    /\ bcase \in {[NoBatchCase EXCEPT !.list = [i \in 1..n |-> i],
                                      !.stage = stage, !.batch_size = b] :
                     n \in 0..MaxList, b \in 1..MaxBatchSize,
                     stage \in BatchStages}
    /\ gcase = NoGenCase
    /\ qcase = NoQualityCase
    /\ vbcase = NoVerifyBatchCase
    /\ process = FreshProcess

\* lines 127-129 / 212-214: a non-empty list enters the loop
BatchEnter ==
    /\ ~bcase.entered
    /\ bcase.list # <<>>
    /\ bcase' = [bcase EXCEPT
                   !.entered = TRUE,
                   !.total_batches = CeilDiv(Len(bcase.list), bcase.batch_size)]
    /\ UNCHANGED <<vars, pvars, avars, tcase, ccase, ret, gcase, qcase,
                   vbcase, process>>

\* lines 133-136 / 218-221: the next batch_idx of range(total_batches)
BatchRun ==
    /\ bcase.entered
    /\ bcase.batch_idx < bcase.total_batches
    /\ bcase' = [bcase EXCEPT
                   !.batches = Append(@, Batch(bcase.list, bcase.batch_idx,
                                               bcase.batch_size)),
                   !.batch_idx = @ + 1]
    /\ UNCHANGED <<vars, pvars, avars, tcase, ccase, ret, gcase, qcase,
                   vbcase, process>>

BatchSpec == BatchInit /\ [][BatchEnter \/ BatchRun]_bcase

\* ================= generation for sparse clusters: GenSpec
\* Sizes of the clusters _analyze_semantic_distribution reports: HDBSCAN
\* finds clusters of min_cluster_size = max(3, config.MIN_CLUSTER_SIZE)
\* records or more, and those of fewer than 20 are reported.
SPARSE_THRESHOLD == 20

\* What json.loads makes of the response of the generation prompt: it
\* raises ("text"), returns a value that cannot be sliced, a JSON object,
\* number or null ("value"), or returns a JSON array (a JSON string slices
\* and iterates like an array of non-objects).  An item of the array is
\* "object" for a JSON object and "other" for anything else.
ArrayOf(len, other) ==
    [kind |-> "array",
     items |-> [i \in 1..len |-> IF i = other THEN "other" ELSE "object"]]

mark_generated_some(new_samples) ==
    [j \in 1..Len(SelectSeq(new_samples, LAMBDA x : x = "object")) |->
        [kind |-> "object", generated |-> TRUE]]

\* generate_samples, lines 124-128: every new sample gets _generated =
\* True and the samples are appended; the assignment raises on an item
\* that is not an object, and then nothing of the cluster is appended
mark_generated(new_samples) ==
    IF \E j \in 1..Len(new_samples) : new_samples[j] # "object"
    THEN <<>>
    ELSE [j \in 1..Len(new_samples) |-> [kind |-> "object", generated |-> TRUE]]

GenInit ==
    LET
        \* A reported cluster: cluster_id, size and no samples_to_generate key
        \* (Absent); response is the external model's answer to its prompt, with
        \* lengths about the number of records the prompt asks for.
        SparseClusters ==
            LET
                ClusterSizes == {3, 10, SPARSE_THRESHOLD - 1}
                GenResponses(target) ==
                    {[kind |-> "text", items |-> <<>>], [kind |-> "value", items |-> <<>>]}
                    \cup {ArrayOf(len, 0) : len \in {0, 1, target, target + 1}}
                    \cup {ArrayOf(target + 1, other) : other \in {1, target, target + 1}}
            IN
            UNION {{[cluster_id |-> 0, size |-> size,
                     samples_to_generate |-> Absent, response |-> r] :
                       r \in GenResponses(50 - size)} : size \in ClusterSizes}
    IN
    /\ StoreInit
    /\ request = NoRequest
    /\ llm = NoLlm
    /\ run = IdleRun
    /\ result = [p \in Paths |-> NoResult]
    /\ vcase = NoCase
    /\ KbIdle
    /\ ApiIdle
    /\ tcase = NoThinkCase
    /\ ccase = NoCleanCase
    /\ ret = NoCall
    /\ bcase = NoBatchCase
    /\ gcase \in {[NoGenCase EXCEPT !.clusters = cs] :
                    cs \in UNION {[1..n -> SparseClusters] : n \in 1..MaxClusters}}
    /\ qcase = NoQualityCase
    /\ vbcase = NoVerifyBatchCase
    /\ process = FreshProcess

\* generate_samples, lines 105-131: the next cluster of the loop
GenerateForCluster ==
    LET
        \* target_count = max(5, 50 - cluster["size"])
        TargetCount(cluster) ==
            IF 50 - cluster.size > 5 THEN 50 - cluster.size ELSE 5
        \* OptimizationAgent._generate_similar_samples and _generate_with_guidance
        \* after the chat call: samples[:count] of the parsed response, [] when
        \* json.loads or the slice raises
        parse_generated(response, count) ==
            IF response.kind = "array"
            THEN SubSeq(response.items, 1, Min(count, Len(response.items)))
            ELSE <<>>
    IN
    LET k == Len(gcase.asked) + 1 IN
    /\ k <= Len(gcase.clusters)
    /\ LET cluster == gcase.clusters[k]
           target_count == TargetCount(cluster)
           new_samples == parse_generated(cluster.response, target_count)
       IN  gcase' = [gcase EXCEPT
                       !.asked = Append(@, target_count),
                       !.contributed = Append(@, mark_generated(new_samples))]
    /\ UNCHANGED <<vars, pvars, avars, tcase, ccase, ret, bcase, qcase,
                   vbcase, process>>

\* tasks.py lines 161-196, the worker's generation stage over the same
\* clusters: total_to_generate sums cluster.get("samples_to_generate", 0);
\* only a positive total enters the batch loop, whose first
\* generate_samples(..., max_samples=...) call raises TypeError
\* (generate_samples has no such parameter).
JobGeneration ==
    LET n == Len(gcase.clusters)
        RECURSIVE SumTo(_)
        SumTo(k) ==
            IF k = 0 THEN 0
            ELSE SumTo(k - 1)
                 + (IF gcase.clusters[k].samples_to_generate = Absent
                    THEN 0 ELSE gcase.clusters[k].samples_to_generate)
        total_to_generate == SumTo(n)
    IN  /\ ~gcase.job.done
        /\ gcase' = [gcase EXCEPT !.job =
              [done |-> TRUE,
               total_to_generate |-> total_to_generate,
               total_batches |-> IF total_to_generate > 0
                                 THEN CeilDiv(total_to_generate, BATCH_SIZE)
                                 ELSE 0,
               batches |-> 0,
               raised |-> total_to_generate > 0]]
        /\ UNCHANGED <<vars, pvars, avars, tcase, ccase, ret, bcase, qcase,
                   vbcase, process>>

GenSpec == GenInit /\ [][GenerateForCluster \/ JobGeneration]_gcase

\* ============== diagnose_full on records with any reasoning key: QualitySpec
\* A record with every key it may carry; a key it does not have is NA.
\* The value of a reasoning key is empty or a text, the answer (under
\* answer or under output) is short or of 50 characters or more.
NoKeys ==
    [question |-> "q1", think |-> NA, answer |-> NA, output |-> NA,
     reasoning |-> NA, rationale |-> NA, explanation |-> NA, steps |-> NA,
     cot |-> NA, chain_of_thought |-> NA, sikao_guocheng |-> NA]

QualityInit ==
    LET
        QualityRecords ==
            LET answered ==
                    {[NoKeys EXCEPT !.think = t, !.answer = a] :
                        t \in {NA, "t"}, a \in {"short", "long"}}
                    \cup {[NoKeys EXCEPT !.think = t, !.output = "long"] :
                             t \in {NA, "t"}}
            IN  answered
                \cup {[r EXCEPT ![field] = v] :
                         r \in answered, field \in reasoning_fields, v \in {"", "r"}}
    IN
    /\ StoreInit
    /\ request = NoRequest
    /\ llm = NoLlm
    /\ run = IdleRun
    /\ result = [p \in Paths |-> NoResult]
    /\ vcase = NoCase
    /\ KbIdle
    /\ ApiIdle
    /\ tcase = NoThinkCase
    /\ ccase = NoCleanCase
    /\ ret = NoCall
    /\ bcase = NoBatchCase
    /\ gcase = NoGenCase
    /\ qcase \in {[NoQualityCase EXCEPT !.dataset = ds] :
                    ds \in UNION {[1..n -> QualityRecords] :
                                     n \in 0..MaxQuality}}
    /\ vbcase = NoVerifyBatchCase
    /\ process = FreshProcess

\* one call of diagnose_full in auto mode
DiagnoseFull ==
    LET low_quality_samples == diagnose_full(qcase.dataset) IN
    /\ ~qcase.done
    /\ qcase' = [qcase EXCEPT
                   !.done = TRUE,
                   !.has_think_field = check_has_think_field(qcase.dataset),
                   !.low_quality =
                       [j \in 1..Len(low_quality_samples) |->
                           low_quality_samples[j].index]]
    /\ UNCHANGED <<vars, pvars, avars, tcase, ccase, ret, bcase, gcase,
                   vbcase, process>>

QualitySpec == QualityInit /\ [][DiagnoseFull]_qcase

\* ================= verify_batch with exceptions: VerifyBatchSpec
VerifyBatchInit ==
    LET
        \* What the verifier answers to one prompt here: text json.loads rejects,
        \* or one of the judgements of Verdicts
        BatchResponses == {Unparseable} \cup Verdicts
    IN
    /\ StoreInit
    /\ request = NoRequest
    /\ llm = NoLlm
    /\ run = IdleRun
    /\ result = [p \in Paths |-> NoResult]
    /\ vcase = NoCase
    /\ KbIdle
    /\ ApiIdle
    /\ tcase = NoThinkCase
    /\ ccase = NoCleanCase
    /\ ret = NoCall
    /\ bcase = NoBatchCase
    /\ gcase = NoGenCase
    /\ qcase = NoQualityCase
    /\ process = FreshProcess
    /\ vbcase \in
          UNION {{[NoVerifyBatchCase EXCEPT
                     !.samples = [i \in 1..n |->
                                    Sample(Question(i), NA, "r", "long")],
                     !.docs = docs, !.responses = rs, !.raises = ex] :
                  docs \in {<<>>, <<"d1">>},
                  rs \in [1..n -> BatchResponses],
                  ex \in SUBSET (1..n)} : n \in 0..MaxVerify}

\* one call of verify_batch
VerifyBatch ==
    LET out == verify_each(vbcase.samples, vbcase.docs, vbcase.responses,
                           vbcase.raises)
    IN  /\ ~vbcase.done
        /\ vbcase' = [vbcase EXCEPT
                        !.done = TRUE,
                        !.passed = out.passed,
                        !.corrected = out.corrected,
                        !.rejected = out.rejected,
                        !.verified_samples = out.verified_samples,
                        !.stats = out.stats]
        /\ UNCHANGED <<vars, pvars, avars, tcase, ccase, ret, bcase, gcase,
                       qcase, process>>

VerifyBatchSpec == VerifyBatchInit /\ [][VerifyBatch]_vbcase

\* ============ init_worker in one worker process: WorkerProcessSpec
\* The constructors init_worker calls, in the order of lines 32-52; any of
\* them can raise (TaskManager.__init__ re-raises a failed Redis ping,
\* task_manager.py:29-31).  "none": nothing raises.
InitFaults ==
    {"none", "LLMClient", "SentenceTransformer", "KnowledgeBaseManager",
     "DataOptimizationWorkflow", "StorageManager", "TaskManager"}

\* tasks.init_worker, lines 24-54.  Nothing happens when workflow is set
\* (line 28).  Otherwise the constructors run in order and each global is
\* assigned as soon as its constructor returns: workflow at line 41,
\* storage_manager at line 49 (only when saving is configured),
\* task_manager at line 52.  A constructor that raises ends the call and
\* leaves the earlier assignments in place.
init_worker(p, fault) ==
    IF p.workflow
    THEN [process |-> p, init |-> "skipped"]
    ELSE IF fault \in {"LLMClient", "SentenceTransformer",
                       "KnowledgeBaseManager", "DataOptimizationWorkflow"}
    THEN [process |-> p, init |-> "raised"]
    ELSE IF fault = "StorageManager" /\ p.save
    THEN [process |-> [p EXCEPT !.workflow = TRUE,
                                !.built = p.built + 1],
          init |-> "raised"]
    ELSE IF fault = "TaskManager"
    THEN [process |-> [p EXCEPT !.workflow = TRUE,
                                !.built = p.built + 1,
                                !.storage_manager = p.save],
          init |-> "raised"]
    ELSE [process |-> [p EXCEPT !.workflow = TRUE,
                                !.built = p.built + 1,
                                !.storage_manager = p.save,
                                !.task_manager = TRUE],
          init |-> "built"]

WorkerProcessInit ==
    /\ StoreInit
    /\ request = NoRequest
    /\ llm = NoLlm
    /\ run = IdleRun
    /\ result = [p \in Paths |-> NoResult]
    /\ vcase = NoCase
    /\ KbIdle
    /\ ApiIdle
    /\ tcase = NoThinkCase
    /\ ccase = NoCleanCase
    /\ ret = NoCall
    /\ bcase = NoBatchCase
    /\ gcase = NoGenCase
    /\ qcase = NoQualityCase
    /\ vbcase = NoVerifyBatchCase
    /\ process \in {[FreshProcess EXCEPT !.save = sv] : sv \in BOOLEAN}

\* one task of the process, from its init_worker() call to its end
run_task(p, name, fault) ==
    LET
        \* What one task of the process does after its init_worker() call (line 82
        \* or 319, before the try): when init_worker raised, the task ends there;
        \* when task_manager is None the first use of it raises AttributeError
        \* (line 92, and again at line 307 in the except clause; line 325 in
        \* resume_task); otherwise the body runs.
        task_outcome(called) ==
            IF called.init = "raised" THEN "init_raised"
            ELSE IF ~called.process.task_manager THEN "AttributeError"
            ELSE "ran"
    IN
    LET called == init_worker(p, fault)
    IN  [called.process EXCEPT
            !.log = Append(p.log,
                           [task |-> name,
                            fault |-> fault,
                            init |-> called.init,
                            workflow |-> called.process.workflow,
                            task_manager |-> called.process.task_manager,
                            outcome |-> task_outcome(called)])]

\* tasks.optimize_dataset_async, lines 82-308
OptimizeDatasetAsync ==
    \E fault \in InitFaults :
        /\ Len(process.log) < MaxTasks
        /\ process' = run_task(process, "optimize_dataset_async", fault)
        /\ UNCHANGED <<vars, pvars, avars, tcase, ccase, ret, bcase, gcase,
                       qcase, vbcase>>

\* tasks.resume_task, lines 319-347
ResumeTaskAsync ==
    \E fault \in InitFaults :
        /\ Len(process.log) < MaxTasks
        /\ process' = run_task(process, "resume_task", fault)
        /\ UNCHANGED <<vars, pvars, avars, tcase, ccase, ret, bcase, gcase,
                       qcase, vbcase>>

WorkerProcessSpec ==
    WorkerProcessInit /\ [][OptimizeDatasetAsync \/ ResumeTaskAsync]_process

\* ============== TaskManager calls over several task ids: IndexSpec
\* The calls are served one at a time; each is one step.
IndexIds == {"t1", "t2"}

IndexInit ==
    /\ task = [t \in IndexIds |-> EmptyHash]
    /\ batch = [t \in IndexIds |-> {}]
    /\ tasksAll = <<>>
    /\ caller = [c \in Callers |-> IdleCaller]
    /\ worker = [w \in Workers |-> IdleWorker]
    /\ request = NoRequest
    /\ llm = NoLlm
    /\ run = IdleRun
    /\ result = [p \in Paths |-> NoResult]
    /\ vcase = NoCase
    /\ KbIdle
    /\ ApiIdle
    /\ CasesIdle

\* redis zrevrange(key, start, stop): the members by descending score, from
\* rank start to rank stop inclusive; a negative rank counts from the end
zrevrange(zset, start, stop) ==
    LET n == Len(zset)
        rev == [i \in 1..n |-> zset[n + 1 - i]]
        lo == IF start >= 0 THEN start
              ELSE IF n + start < 0 THEN 0 ELSE n + start
        hi == IF stop < 0 THEN n + stop
              ELSE IF stop > n - 1 THEN n - 1 ELSE stop
    IN  SubSeq(rev, lo + 1, hi + 1)

\* TaskManager.list_tasks: the first limit ids of the index, newest first,
\* then those of them whose record exists and has the status asked for.
\* The returned records are named by their ids.
list_tasks(status, limit) ==
    LET task_ids == zrevrange(tasksAll, 0, limit - 1)
    IN  SelectSeq(task_ids,
            LAMBDA t : /\ Exists(t)
                       /\ (status = NA \/ get_task(t).status = status))

\* a client calls create_task
IndexCreateTask ==
    LET
        \* batch_size of a create_task call (any positive integer)
        BatchSizes == {1, BATCH_SIZE}
    IN
    \E t \in IndexIds, b \in BatchSizes :
        \E n \in {b - 1, b, b + 1} :
            /\ create_task(t, n, b)
            /\ ret' = [NoCall EXCEPT !.op = "create_task", !.task_id = t,
                                     !.fresh = ~Exists(t),
                                     !.dataset_size = n, !.batch_size = b]
            /\ UNCHANGED <<batch, caller, worker, pvars, avars, tcase, ccase, yvars>>

\* a client calls delete_task on a stored task
IndexDeleteTask ==
    \E t \in IndexIds :
        /\ delete_task(t)
        /\ ret' = [NoCall EXCEPT !.op = "delete_task", !.task_id = t]
        /\ UNCHANGED <<caller, worker, pvars, avars, tcase, ccase, yvars>>

\* tasks.py line 92: a job for some task id starts and writes its status
IndexJobStart ==
    \E t \in IndexIds :
        /\ update_task_status(t, "processing", <<>>)
        /\ ret' = [NoCall EXCEPT !.op = "update_task_status", !.task_id = t]
        /\ UNCHANGED <<batch, tasksAll, caller, worker, pvars, avars,
                       tcase, ccase, yvars>>

\* tasks.py lines 150-159: the write after the only optimization batch of a
\* job (batch_idx = 0, total_batches = 1)
IndexJobBatch ==
    \E t \in IndexIds :
        /\ get_task(t).status = "processing"
        /\ update_task_status(t, "processing",
              [progress |-> OptProgress(0, 1), completed_batches |-> 1,
               total_batches |-> 2])
        /\ ret' = [NoCall EXCEPT !.op = "update_task_status", !.task_id = t]
        /\ UNCHANGED <<batch, tasksAll, caller, worker, pvars, avars,
                       tcase, ccase, yvars>>

\* tasks.py line 290: the job ends with complete_task
IndexJobComplete ==
    \E t \in IndexIds :
        /\ get_task(t).status = "processing"
        /\ complete_task(t)
        /\ ret' = [NoCall EXCEPT !.op = "complete_task", !.task_id = t]
        /\ UNCHANGED <<batch, tasksAll, caller, worker, pvars, avars,
                       tcase, ccase, yvars>>

\* tasks.py line 307: the job ends with fail_task
IndexJobFail ==
    \E t \in IndexIds :
        /\ get_task(t).status = "processing"
        /\ fail_task(t)
        /\ ret' = [NoCall EXCEPT !.op = "fail_task", !.task_id = t]
        /\ UNCHANGED <<batch, tasksAll, caller, worker, pvars, avars,
                       tcase, ccase, yvars>>

\* a client calls list_tasks
IndexListTasks ==
    LET
        \* status argument of list_tasks; NA is None
        StatusFilters == {NA, "pending", "processing", "completed", "failed"}
    IN
    \E status \in StatusFilters, limit \in 0..MaxLimit :
        /\ ret' = [NoCall EXCEPT !.op = "list_tasks", !.status = status,
                                 !.limit = limit,
                                 !.tasks = list_tasks(status, limit)]
        /\ UNCHANGED <<vars, pvars, avars, tcase, ccase, yvars>>

\* a client calls TaskManager.resume_task: None for a missing or terminal
\* task, else task["completed_batches"], a KeyError when the record has no
\* such field
IndexResumeTask ==
    \E t \in IndexIds :
        /\ ret' = [NoCall EXCEPT
                     !.op = "resume_task", !.task_id = t,
                     !.next_batch = next_batch_to_process(t),
                     !.raised =
                        IF /\ Exists(t)
                           /\ get_task(t).status \notin {"completed", "failed"}
                           /\ get_task(t).completed_batches = Absent
                        THEN "KeyError" ELSE NA]
        /\ UNCHANGED <<vars, pvars, avars, tcase, ccase, yvars>>

IndexNext ==
    \/ IndexCreateTask
    \/ IndexDeleteTask
    \/ IndexJobStart
    \/ IndexJobBatch
    \/ IndexJobComplete
    \/ IndexJobFail
    \/ IndexListTasks
    \/ IndexResumeTask

IndexSpec == IndexInit /\ [][IndexNext]_<<vars, xvars>>

\* ------------------------------------------------------------ properties

\* C1: the stored status of a task only moves pending -> processing ->
\* completed or failed; once it is completed or failed no later operation
\* changes it (steps on which the record exists before and after).
C1_StatusMonotone ==
    [][\A t \in TaskIds :
         LET a == task[t].status
             b == task'[t].status
         IN  (a # NA /\ b # NA) =>
                \/ a = b
                \/ (a = "pending" /\ b = "processing")
                \/ (a = "processing" /\ b \in {"completed", "failed"})]_vars

\* C2: whenever the record shows completed_batches = k, get_batch_results
\* returns at least k batch results.
C2_ResultsBeforeProgress ==
    \A t \in TaskIds :
        (/\ Exists(t)
         /\ get_task(t).completed_batches # Absent
         /\ get_task(t).total_batches # Absent)
        => Cardinality(get_batch_results(t)) >= get_task(t).completed_batches

\* C3: writes to one task are serializable: the status write that ends an
\* update_batch_progress call leaves completed_batches exactly one above
\* the value the store held just before it, so no increment is lost.
C3_NoLostIncrement ==
    [][\A c \in Callers :
         LET t == caller[c].task_id IN
         (/\ caller[c].pc = "hset_task"
          /\ caller'[c].pc = "idle"
          /\ task[t].completed_batches # Absent)
         => task'[t].completed_batches = task[t].completed_batches + 1]_vars

\* C4: a reader never sees the batch result of an update_batch_progress
\* call stored while completed_batches still holds the value the call read.
C4_NoPartialUpdate ==
    \A c \in Callers :
        caller[c].pc = "hset_task"
        => task[caller[c].task_id].completed_batches
               # caller[c].completed_batches - 1

\* C5: 0 <= progress <= 100, and progress = 100 exactly when the status is
\* completed.
C5_ProgressRange ==
    \A t \in TaskIds :
        LET tk == get_task(t)
            p  == tk.progress
        IN  p # NoProgress =>
                /\ 0 <= p.n
                /\ p.n <= 100 * p.d
                /\ (p = Rat(100, 1) <=> tk.status = "completed")

\* C6: completed_batches <= total_batches in every reachable state.
C6_CompletedAtMostTotal ==
    \A t \in TaskIds :
        LET tk == get_task(t) IN
        (tk.completed_batches # Absent /\ tk.total_batches # Absent)
        => tk.completed_batches <= tk.total_batches

\* C7: after k of the K batches of a stage the worker has written
\* offset + weight * k / K, with optimize at offset 3 and weight 47 and
\* verify at offset 75 and weight 20; after the last batch of the stage
\* that is the prefix sum 50, respectively 95, to within 0.5.
C7_StageWeights ==
    \A w \in Workers :
        LET me == worker[w]
            p  == me.progress
            \* |p - s| <= 1/2
            Near(s) == /\ 2 * (p.n - s * p.d) <= p.d
                       /\ 2 * (s * p.d - p.n) <= p.d
        IN  /\ (me.pc \in {"opt", "l207"} /\ me.k >= 1) =>
                  /\ p = Rat(3 * me.K + 47 * me.k, me.K)
                  /\ (me.k = me.K => Near(50))
            /\ (me.pc \in {"verify", "l245"} /\ me.k >= 1) =>
                  /\ p = Rat(75 * me.K + 20 * me.k, me.K)
                  /\ (me.k = me.K => Near(95))

\* C8: when the task of a running job has been deleted, the worker's next
\* step writes nothing for that task id, so get_task stays None.
C8_NoWriteAfterDelete ==
    [][\A w \in Workers :
         LET t == worker[w].task_id IN
         (/\ worker[w].pc \notin {"idle", "resume"}
          /\ ~Exists(t)
          /\ worker'[w] # worker[w])
         => task'[t] = EmptyHash]_vars

\* C9: resume on an interrupted task (status processing, no job running
\* it) whose completed_batches = k >= 1 makes the worker continue the task
\* from batch k: the resume task does not end without processing going on
\* from that batch.
C9_ResumeContinues ==
    [][\A w \in Workers :
         (/\ worker[w].pc = "resume"
          /\ worker'[w].pc # "resume"
          /\ worker[w].k >= 1
          /\ task[worker[w].task_id].status = "processing")
         => /\ worker'[w].pc \in {"opt", "l207", "verify", "l245", "l290"}
            /\ worker'[w].task_id = worker[w].task_id
            /\ worker'[w].k = worker[w].k]_vars

\* C10: after delete_task(id) the task is gone, id is not in the index and
\* no batch result stored for id remains.
C10_DeleteRemovesAll ==
    [][\A t \in TaskIds :
         (Exists(t) /\ task'[t] = EmptyHash)
         => /\ \A i \in DOMAIN tasksAll' : tasksAll'[i] # t
            /\ batch'[t] = {}]_vars

\* C11: create_task on a task id that is already present fails and leaves
\* the stored record and the index as they were.
C11_CreateExistingRejected ==
    [][\A t \in TaskIds :
         (/\ Exists(t)
          /\ \E n \in 0..MaxDataset : create_task(t, n, BATCH_SIZE))
         => /\ task'[t] = task[t]
            /\ tasksAll' = tasksAll]_vars

\* C12: when the worker has run the optimization batches over a non-empty
\* low-quality list, the combined output holds every record of the dataset
\* exactly once, so it has dataset_size records.
C12_OptimizedOncePerRecord ==
    (/\ run.path = "async"
     /\ run.pc = "l207"
     /\ run.low_quality_samples # <<>>)
    => /\ Len(run.optimized_samples) = Len(request.dataset)
       /\ \A i \in 1..Len(request.dataset) :
             Cardinality({j \in 1..Len(run.optimized_samples) :
                 run.optimized_samples[j].question
                     = request.dataset[i].question}) = 1

\* C13: when none of the first 10 records has a think key, the optimize
\* sub-stage of either path makes no chat call and hands on the input
\* dataset unmodified and in order, and the reported optimized_count is 0.
C13_NoThinkPassesDatasetOn ==
    ~check_has_think_field(request.dataset)
    => /\ run.pc \in {"verification", "l207"}
          => /\ run.optimized_samples = request.dataset
             /\ run.calls = 0
       /\ \A p \in Paths :
             result[p].done => result[p].optimized_count = 0

\* C14: with an external model that echoes the record and an empty
\* knowledge base, the final dataset of DataOptimizationWorkflow.run is the
\* input dataset, in the same order.
C14_EchoGivesInputBack ==
    (/\ llm.optimize = "echo"
     /\ request.knowledge_base = <<>>
     /\ result["sync"].done)
    => result["sync"].final_dataset = request.dataset

\* C15: for the same request and the same deterministic external model the
\* worker job returns the final dataset that the synchronous run returns.
C15_WorkerEqualsSync ==
    (result["sync"].done /\ result["async"].done)
    => result["async"].final_dataset = result["sync"].final_dataset

\* C16: when every optimization response is unparseable the task is
\* completed, every low-quality record goes on as the original record, and
\* none of them is counted as optimized.
C16_ParseFailureKeepsOriginal ==
    LET Range(s) == {s[i] : i \in 1..Len(s)}
    IN
    llm.optimize = "garbage"
    => /\ run.pc \in {"verification", "l207"}
          => \A j \in 1..Len(run.low_quality_samples) :
                run.low_quality_samples[j].sample
                    \in Range(run.optimized_samples)
       /\ run.pc = "verification" => run.optimized_count = 0
       /\ result["async"].done => result["async"].status = "completed"

\* C17: scenario 3 (first record with question, think and a short answer,
\* second with question and a short answer; guidance with focus_areas =
\* [reasoning_quality]; a rewriting model): the final dataset holds the
\* first record unchanged and the second rewritten with _optimized = True.
C17_ScenarioThree ==
    LET Range(s) == {s[i] : i \in 1..Len(s)}
    IN
    (/\ request.dataset = <<Sample("q1", "t", NA, "short"),
                            Sample("q2", NA, NA, "short")>>
     /\ request.optimization_guidance =
            [given |-> TRUE, focus_areas |-> {"reasoning_quality"},
             problem_indices |-> <<>>]
     /\ request.knowledge_base = <<>>
     /\ llm.optimize = "rewrite")
    => \A p \in Paths :
          result[p].done =>
             /\ request.dataset[1] \in Range(result[p].final_dataset)
             /\ \E r \in Range(result[p].final_dataset) :
                   /\ r.question = "q2"
                   /\ r.reasoning = "R"
                   /\ r.optimized

\* C18: with retrieved evidence, for every verifier response: passed iff
\* is_correct and confidence >= threshold; otherwise corrected iff
\* self-correction is enabled and the response offers a corrected answer
\* or a corrected reasoning (then applied, with _corrected = True);
\* otherwise rejected.
C18_VerifyDecisionRule ==
    LET r == vcase.response
        pass == /\ r.parseable
                /\ r.is_correct
                /\ r.confidence >= RAG_CONFIDENCE_THRESHOLD
        offered == /\ r.parseable
                   /\ \/ r.corrected_answer # NA
                      \/ r.corrected_reasoning # NA
        fix == ~pass /\ vcase.self_correction /\ offered
    IN  (vcase.status # NA /\ vcase.docs # <<>>)
        => /\ vcase.status = "passed" <=> pass
           /\ vcase.status = "corrected" <=> fix
           /\ vcase.status = "rejected" <=> (~pass /\ ~fix)
           /\ vcase.status = "corrected" =>
                 /\ vcase.corrected_sample.corrected
                 /\ r.corrected_answer # NA =>
                       vcase.corrected_sample.answer = r.corrected_answer
                 /\ r.corrected_reasoning # NA =>
                       vcase.corrected_sample.reasoning
                           = r.corrected_reasoning

\* C19: no record that a verify_batch call rejected is among the records
\* handed to cleaning or in the final dataset, in the single batch of the
\* synchronous run and in the batches of the worker.
C19_RejectedNeverForwarded ==
    LET Range(s) == {s[i] : i \in 1..Len(s)}
    IN
    \A r \in Range(run.rejected) :
        /\ r \notin Range(run.verified_samples)
        /\ r \notin Range(run.final_dataset)

\* a worker run that verified in two or more batches, rejected a record
\* and still has a final dataset
C19_Witness ==
    /\ run.path = "async"
    /\ run.pc = "l290"
    /\ run.ver[2] >= 2
    /\ run.rejected # <<>>
    /\ run.final_dataset # <<>>

\* C20: a run enters mode select, diagnose, optimize, verify, clean in that
\* order, each once; verification is entered only when every optimization
\* batch is done and cleaning only when every verification batch is done;
\* the current_phase written to the store never goes back.
C20_StagesInOrder ==
    LET Stages == <<"mode_selector", "diagnostic", "optimization",
                    "verification", "cleaning">>
        Rank(phase) == CHOOSE i \in 2..5 : Stages[i] = phase
    IN  /\ Len(run.trail) <= Len(Stages)
        /\ run.trail = SubSeq(Stages, 1, Len(run.trail))
        /\ run.pc \in {"END", "l290"} => run.trail = Stages
        /\ Len(run.trail) >= 4 => run.opt[1] = run.opt[2]
        /\ Len(run.trail) >= 5 => run.ver[1] = run.ver[2]
        /\ \A i, j \in 1..Len(run.phase_log) :
              i < j => Rank(run.phase_log[i]) <= Rank(run.phase_log[j])

\* a worker run that went through two or more optimization batches and two
\* or more verification batches and has cleaned
C20_Witness ==
    /\ run.path = "async"
    /\ run.pc = "l290"
    /\ run.opt[2] >= 2
    /\ run.ver[2] >= 2
    /\ Len(run.phase_log) >= 9

\* C21: a job that has started ends with its task completed or failed; an
\* exception raised inside the job is caught there, recorded with fail_task
\* and does not leave the job.
C21_JobEndsCompletedOrFailed ==
    [][\A w \in Workers :
         (/\ worker[w].pc \notin {"idle", "resume"}
          /\ worker'[w].pc = "idle")
         => /\ worker[w].pc # "raised"
            /\ task'[worker[w].task_id].status \in {"completed", "failed"}]_vars

\* C22: when every chat call of the optimization stage fails, the batch
\* contributes no record for its low-quality items, the run goes on and
\* the task does not fail.
C22_FailedCallsContributeNothing ==
    LET Range(s) == {s[i] : i \in 1..Len(s)}
    IN
    llm.optimize = "raises"
    => /\ (run.path = "sync" /\ run.pc = "verification" /\ run.calls > 0)
          => \A j \in 1..Len(run.low_quality_samples) :
                run.low_quality_samples[j].sample
                    \notin Range(run.optimized_samples)
       /\ result["async"].done => result["async"].status = "completed"

\* C23: on the API process, for every interleaving of submissions and
\* background runs, GET /optimize/{task_id} answers 404 exactly when the id
\* was never submitted, and its response carries optimized_dataset exactly
\* when the status it reports is completed.
C23_ResultCarriesDatasetIffCompleted ==
    reply.endpoint = "result"
    => /\ (reply.code = 404) <=> (reply.task_id \notin submitted)
       /\ reply.code = 200
          => ((reply.optimized_dataset # Absent)
                <=> (reply.status = "completed"))

\* C24: the synchronous endpoint rejects a dataset of more than 100 records
\* with 400 before the workflow runs, and accepts one of exactly 100.
C24_SyncRejectsLargeDataset ==
    reply.endpoint = "sync"
    => /\ reply.request_size > MaxSyncDataset
          => (reply.code = 400 /\ ~reply.ran)
       /\ reply.request_size = MaxSyncDataset => reply.code # 400

\* C25: the mode the API reports is guided exactly when the guidance is
\* non-empty, and it is the mode the workflow ran with, for absent
\* guidance and for an empty mapping too.
C25_ReportedModeIsPipelineMode ==
    (reply.endpoint = "sync" /\ reply.code = 200)
    => /\ (reply.mode = "guided")
             <=> (reply.request_guidance \notin {NoGuidance, EmptyGuidance})
       /\ reply.mode = reply.statistics_mode

C27_CompletedBatchesNeverDecrease ==
    [][\A t \in TaskIds :
         (/\ Exists(t)
          /\ task'[t] # EmptyHash
          /\ task[t].completed_batches # Absent
          /\ task'[t].completed_batches # Absent)
         => task'[t].completed_batches >= task[t].completed_batches]_vars

\* C28: an input run to completion, deleted and submitted again to the same
\* worker, with a deterministic external model, gives a final dataset of
\* the size the first run gave.
C28_SameInputSameSize ==
    (history # <<>> /\ result["async"].done)
    => Len(result["async"].final_dataset) = history[1]

\* C29: has_think_field is true exactly when one of the first min(10, n)
\* records has a key equal to "think" ignoring case, and the diagnostic
\* stage and the optimize stage compute the same value for a dataset.
C29_ThinkFieldIgnoringCase ==
    LET think_keys == {"think", "THINK", "Think"}
        expected ==
            \E i \in 1..Len(tcase.dataset) :
                /\ i <= 10
                /\ tcase.dataset[i] \cap think_keys # {}
    IN  /\ "diagnostic" \in tcase.called => (tcase.diagnostic <=> expected)
        /\ "optimization" \in tcase.called
              => (tcase.optimization <=> expected)
        /\ tcase.called = {"diagnostic", "optimization"}
              => (tcase.diagnostic <=> tcase.optimization)

\* a dataset whose only key like think is an upper-case THINK, found by
\* both stages
C29_Witness ==
    /\ tcase.called = {"diagnostic", "optimization"}
    /\ \E i \in 1..Len(tcase.dataset) : "THINK" \in tcase.dataset[i]
    /\ \A i \in 1..Len(tcase.dataset) :
          tcase.dataset[i] \cap {"think", "Think"} = {}
    /\ tcase.diagnostic
    /\ tcase.optimization

\* C30: redaction gives one record per verified record, in the same order,
\* and an output record carries _pii_cleaned = True exactly when redaction
\* changed one of its fields.
C30_PiiCleanedMarksChangedRecords ==
    LET texts(sample) == <<sample.question, sample.think, sample.reasoning,
                           sample.answer>>
        placeholders == {"[PERSON]", "[PHONE]", "[EMAIL]", "[LOCATION]",
                         "[REDACTED]"}
    IN
    ccase.done
    => /\ Len(ccase.cleaned_dataset) = Len(ccase.dataset)
       /\ \A i \in 1..Len(ccase.dataset) :
            /\ \A f \in 1..4 :
                  \/ texts(ccase.cleaned_dataset[i])[f]
                        = texts(ccase.dataset[i])[f]
                  \/ texts(ccase.cleaned_dataset[i])[f] \in placeholders
            /\ ccase.cleaned_dataset[i].pii_cleaned
                  <=> (texts(ccase.cleaned_dataset[i])
                         # texts(ccase.dataset[i]))

\* C31: after create_task(id, dataset_size, mode, batch_size) on a fresh id
\* the record shows status pending, progress 0, completed_batches 0 and
\* total_batches = ceil(dataset_size / batch_size), which is 1, 1, 2 for
\* dataset_size = batch_size - 1, batch_size, batch_size + 1, and id is the
\* most recent entry of the task index.
C31_CreateTaskRecord ==
    (ret.op = "create_task" /\ ret.fresh) =>
        LET tk == get_task(ret.task_id)
            n == ret.dataset_size
            b == ret.batch_size
        IN  /\ tk.status = "pending"
            /\ tk.progress = Rat(0, 1)
            /\ tk.completed_batches = 0
            /\ tk.total_batches * b >= n
            /\ (tk.total_batches - 1) * b < n
            /\ (n \in {b - 1, b} => tk.total_batches = 1)
            /\ (n = b + 1 => tk.total_batches = 2)
            /\ zrevrange(tasksAll, 0, 0) = <<ret.task_id>>

\* C31 as it holds: the same, where the counts 1, 1, 2 are those of a
\* batch_size of at least 2 (with batch_size = 1 the dataset of
\* batch_size - 1 records is empty and has 0 batches).
C31_CreateTaskRecordAmended ==
    (ret.op = "create_task" /\ ret.fresh) =>
        LET tk == get_task(ret.task_id)
            n == ret.dataset_size
            b == ret.batch_size
        IN  /\ tk.status = "pending"
            /\ tk.progress = Rat(0, 1)
            /\ tk.completed_batches = 0
            /\ tk.total_batches * b >= n
            /\ (tk.total_batches - 1) * b < n
            /\ (b >= 2 /\ n \in {b - 1, b} => tk.total_batches = 1)
            /\ (b >= 2 /\ n = b + 1 => tk.total_batches = 2)
            /\ (n = 0 => tk.total_batches = 0)
            /\ zrevrange(tasksAll, 0, 0) = <<ret.task_id>>

\* a fresh id created after another task, with one record more than a batch
C31_Witness ==
    /\ ret.op = "create_task"
    /\ ret.fresh
    /\ Len(tasksAll) = 2
    /\ ret.batch_size >= 2
    /\ ret.dataset_size = ret.batch_size + 1
    /\ get_task(ret.task_id).total_batches = 2

\* C32: resume_task returns the task's current completed_batches when the
\* task exists and its status is pending or processing, and None when the
\* task does not exist or its status is completed or failed; it changes
\* nothing in the store.
C32_ResumeTaskReturns ==
    [][ret'.op = "resume_task" =>
         LET t == ret'.task_id IN
         /\ <<task, batch, tasksAll>>' = <<task, batch, tasksAll>>
         /\ (Exists(t) /\ get_task(t).status \in {"pending", "processing"})
            => /\ ret'.raised = NA
               /\ ret'.next_batch # Absent
               /\ ret'.next_batch = get_task(t).completed_batches
         /\ (~Exists(t) \/ get_task(t).status \in {"completed", "failed"})
            => /\ ret'.raised = NA
               /\ ret'.next_batch = Absent]_<<vars, xvars>>

\* C33: for a list L of n items and batch size b >= 1 the worker processes
\* ceil(n/b) batches in increasing index i, batch i is the contiguous slice
\* L[i*b .. min((i+1)*b, n)), every batch has between 1 and b items, and the
\* batches in order concatenate to L; for the optimization batches and for
\* the verification batches.
C33_BatchesPartitionTheList ==
    LET L == bcase.list
        n == Len(L)
        b == bcase.batch_size
        RECURSIVE Concat(_)
        Concat(ss) == IF ss = <<>> THEN <<>> ELSE Head(ss) \o Concat(Tail(ss))
        finished == IF bcase.entered
                    THEN bcase.batch_idx = bcase.total_batches
                    ELSE n = 0
    IN  /\ Len(bcase.batches) = bcase.batch_idx
        /\ \A k \in 1..Len(bcase.batches) :
              LET i == k - 1
                  lo == i * b
                  hi == IF (i + 1) * b < n THEN (i + 1) * b ELSE n
              IN  /\ Len(bcase.batches[k]) = hi - lo
                  /\ \A j \in 1..(hi - lo) : bcase.batches[k][j] = L[lo + j]
                  /\ Len(bcase.batches[k]) >= 1
                  /\ Len(bcase.batches[k]) <= b
        /\ finished =>
              /\ Len(bcase.batches) * b >= n
              /\ (Len(bcase.batches) = 0 \/ (Len(bcase.batches) - 1) * b < n)
              /\ Concat(bcase.batches) = L

\* a loop that has run three batches, the last of them a short one
C33_Witness ==
    /\ bcase.entered
    /\ bcase.batch_idx = bcase.total_batches
    /\ Len(bcase.batches) = 3
    /\ Len(bcase.batches[3]) < bcase.batch_size

\* C34: in the worker path, when the diagnosed sparse clusters carry no
\* explicit generation target, each cluster's target is max(10, 50 - size),
\* the total target T is their sum, and the generation stage runs exactly
\* ceil(T / batch_size) generation batches without failing the task.
C34_WorkerGeneratesInBatches ==
    gcase.job.done =>
        LET RECURSIVE T(_)
            T(k) == IF k = 0 THEN 0
                    ELSE T(k - 1)
                         + (IF 50 - gcase.clusters[k].size > 10
                            THEN 50 - gcase.clusters[k].size ELSE 10)
            total == T(Len(gcase.clusters))
        IN  /\ ~gcase.job.raised
            /\ gcase.job.batches * BATCH_SIZE >= total
            /\ (gcase.job.batches - 1) * BATCH_SIZE < total

\* C35: for every sparse cluster the diagnosis can report (size < 20) the
\* generation call for the cluster asks for max(10, 50 - size) records,
\* contributes at most that many, contributes none when the response does
\* not parse as a JSON array of objects, and every contributed record has
\* _generated = true.
C35_GenerationPerCluster ==
    \A k \in 1..Len(gcase.asked) :
        LET cluster == gcase.clusters[k]
            target == IF 50 - cluster.size > 10 THEN 50 - cluster.size ELSE 10
            arrayOfObjects ==
                /\ cluster.response.kind = "array"
                /\ \A i \in 1..Len(cluster.response.items) :
                      cluster.response.items[i] = "object"
        IN  /\ gcase.asked[k] = target
            /\ Len(gcase.contributed[k]) <= target
            /\ ~arrayOfObjects => gcase.contributed[k] = <<>>
            /\ \A j \in 1..Len(gcase.contributed[k]) :
                  gcase.contributed[k][j].generated

\* C35 as it holds: the call asks for max(10, 50 - size) records; it
\* contributes none when the response is not JSON, is not a JSON array, or
\* has a non-object among its first target items, and otherwise the first
\* target items (all of them when there are fewer), each with _generated =
\* true; items after the first target are discarded whatever they are.
C35_GenerationPerClusterAmended ==
    \A k \in 1..Len(gcase.asked) :
        LET cluster == gcase.clusters[k]
            target == IF 50 - cluster.size > 10 THEN 50 - cluster.size ELSE 10
            items == cluster.response.items
            kept == IF Len(items) < target THEN Len(items) ELSE target
            accepted ==
                /\ cluster.response.kind = "array"
                /\ \A i \in 1..kept : items[i] = "object"
        IN  /\ gcase.asked[k] = target
            /\ Len(gcase.contributed[k]) <= target
            /\ ~accepted => gcase.contributed[k] = <<>>
            /\ accepted => Len(gcase.contributed[k]) = kept
            /\ \A j \in 1..Len(gcase.contributed[k]) :
                  gcase.contributed[k][j].generated

\* two clusters have been gone through: one whose response had one object
\* more than asked for and contributed exactly the target, one whose
\* response had a non-object among the first target items
C35_Witness ==
    /\ Len(gcase.asked) = 2
    /\ \E k \in 1..2 :
          /\ Len(gcase.clusters[k].response.items) = gcase.asked[k] + 1
          /\ Len(gcase.contributed[k]) = gcase.asked[k]
    /\ \E k \in 1..2 :
          /\ gcase.clusters[k].response.kind = "array"
          /\ Len(gcase.clusters[k].response.items) > 0
          /\ gcase.clusters[k].response.items[1] = "other"
          /\ gcase.contributed[k] = <<>>

\* C36: in auto mode on a dataset with has_think_field = true a record is
\* in the low-quality list iff it has none of the recognized reasoning keys
\* (reasoning, rationale, explanation, steps, cot, chain_of_thought) or its
\* answer is shorter than 50 characters; each dataset index appears at most
\* once in the list; when has_think_field = false the list is empty.
C36_LowQualityIffNoReasoningOrShort ==
    qcase.done =>
        LET ds == qcase.dataset
            recognized == {"reasoning", "rationale", "explanation", "steps",
                           "cot", "chain_of_thought"}
            listed(i) == \E j \in 1..Len(qcase.low_quality) :
                            qcase.low_quality[j] = i - 1
            answer(i) == IF ds[i].answer # NA THEN ds[i].answer
                         ELSE ds[i].output
        IN  /\ qcase.has_think_field =>
                  \A i \in 1..Len(ds) :
                      listed(i) <=>
                          \/ \A key \in recognized : ds[i][key] = NA
                          \/ answer(i) # "long"
            /\ \A j, k \in 1..Len(qcase.low_quality) :
                  j # k => qcase.low_quality[j] # qcase.low_quality[k]
            /\ ~qcase.has_think_field => qcase.low_quality = <<>>

\* C38: within a single run of optimize_dataset_async on a task that no
\* other worker writes, the progress values written to the store never
\* decrease, from the first one written to the final 100, for every number
\* of optimization and verification batches (zero included): once the run
\* has written a progress, the stored progress does not fall below it.
C38_ProgressNonDecreasingInRun ==
    [][\A w \in Workers :
         LET t == worker[w].task_id
             last == worker[w].progress
         IN  (t # NA /\ last # NoProgress /\ task'[t].progress # NoProgress)
             => last.n * task'[t].progress.d <= task'[t].progress.n * last.d]_vars

\* a run that has gone through optimization batches and two or more
\* verification batches and has written progress 95 for the cleaning
C38_Witness ==
    \E w \in Workers :
        /\ worker[w].pc = "l290"
        /\ worker[w].optimized > 0
        /\ worker[w].K >= 2
        /\ worker[w].progress = Rat(95, 1)
        /\ task[worker[w].task_id].progress = Rat(95, 1)

\* C37: list_tasks(status, limit) returns the min(limit, m) most recently
\* created tasks that have the given status, m being the number of stored
\* tasks with that status, most recent first; with no status it returns
\* the min(limit, total) most recent tasks.
C37_ListTasksNewestWithStatus ==
    ret.op = "list_tasks" =>
        LET n == Len(tasksAll)
            newest_first == [i \in 1..n |-> tasksAll[n + 1 - i]]
            matching ==
                SelectSeq(newest_first,
                    LAMBDA t : /\ Exists(t)
                               /\ (ret.status = NA
                                   \/ get_task(t).status = ret.status))
            m == Len(matching)
        IN  ret.tasks = SubSeq(matching, 1,
                               IF ret.limit < m THEN ret.limit ELSE m)

\* C39: verify_batch puts every input record in exactly one of passed,
\* corrected, rejected, so passed + corrected + rejected = total for every
\* batch and every mix of verifier outcomes and exceptions, and
\* verified_samples is exactly the passed records followed by the corrected
\* records, of size passed + corrected.
C39_VerifyBatchPartitions ==
    vbcase.done =>
        LET n == Len(vbcase.samples)
            count(list, q) ==
                Cardinality({j \in 1..Len(list) : list[j].question = q})
        IN  /\ \A i \in 1..n :
                  count(vbcase.passed, Question(i))
                  + count(vbcase.corrected, Question(i))
                  + count(vbcase.rejected, Question(i)) = 1
            /\ Len(vbcase.passed) + Len(vbcase.corrected)
               + Len(vbcase.rejected) = n
            /\ vbcase.stats.total = n
            /\ vbcase.stats.passed = Len(vbcase.passed)
            /\ vbcase.stats.corrected = Len(vbcase.corrected)
            /\ vbcase.stats.rejected = Len(vbcase.rejected)
            /\ vbcase.stats.passed + vbcase.stats.corrected
               + vbcase.stats.rejected = vbcase.stats.total
            /\ vbcase.verified_samples = vbcase.passed \o vbcase.corrected
            /\ Len(vbcase.verified_samples)
               = vbcase.stats.passed + vbcase.stats.corrected

\* a batch of three with a passed, a corrected and a rejected record, one
\* of them rejected because its verification raised
C39_Witness ==
    /\ vbcase.done
    /\ Len(vbcase.samples) = 3
    /\ vbcase.raises # {}
    /\ Len(vbcase.passed) = 1
    /\ Len(vbcase.corrected) = 1
    /\ Len(vbcase.rejected) = 1

\* C40: init_worker initialises the singletons of the worker at most once
\* per process and all-or-nothing: after any sequence of init_worker calls,
\* including calls in which a constructor (for example the TaskManager
\* store connection) raises, workflow and task_manager are both set or
\* both unset, so no job runs with workflow set and task_manager missing.
C40_InitWorkerAllOrNothing ==
    /\ process.built <= 1
    /\ process.workflow <=> process.task_manager
    /\ \A i \in 1..Len(process.log) :
          process.log[i].init # "raised" =>
              ~(process.log[i].workflow /\ ~process.log[i].task_manager)
====
